---- MODULE Spec2Model ----
(***************************************************************************)
(* Multi-source sanctions search: request validation, the fuzzy scorer,    *)
(* the per-request fan-out of perform_search and ResultAggregator.         *)
(* Strings are sequences of one-character strings.  Scores are the exact   *)
(* rational percentages RapidFuzz returns, held as integers in units of    *)
(* 1/ScoreUnit percent (Pct(100) is a score of 100).                       *)
(***************************************************************************)
EXTENDS Integers, Sequences, FiniteSets, TLC

VARIABLES
    pc,          \* position of perform_search
    request,     \* the validated SearchRequest
    created,     \* service objects constructed for this request
    call,        \* per source: state of its search call
    taskResult,  \* per source: the (results, error) pair its call produced
    completed,   \* inside gather: the tasks in the order they finished
    localResults,\* the rows search_local_sanctions returned
    aggInput,    \* per source: the (results, error) pair handed to aggregate
    response,    \* the SearchResponse built by aggregate, or NoResponse
    closed,      \* per service object: number of close() calls made
    rawQuery,    \* the query field of the incoming request body
    validation,  \* outcome of SearchRequest validation of rawQuery
    body,        \* handler: the parsed request body, or NoBody
    http,        \* handler: the HTTP response returned, or NoHttp
    gpc,         \* position of the graph store operation in progress
    args,        \* its arguments (node_id, depth, max_nodes)
    records,     \* the value execute_read returned, or NoRecords
    nodes,       \* get_connections: the GraphNode list built so far
    edges,       \* get_connections: the GraphEdge list built so far
    returned,    \* what the operation returned or raised, or NoOutcome
    client,      \* remote API client: the service it talks to and its api key
    cpc,         \* position of its search call
    attempt_number, \* _make_request attempts made in this call
    attempt_exc, \* what the last attempt returned or raised
    search_result,  \* what search returned or raised, or NoOutcome
    current_state,  \* state of the service's circuit breaker
    failures,    \* failed HTTP requests in a row so far
    searches,    \* search calls finished so far
    matcher,     \* FuzzyMatcher: its threshold and the arguments of a call
    best,        \* what get_best_match returned, or NoOutcome
    now,         \* datetime.utcnow(), in seconds
    cache,       \* CacheService.cache: per key its entry, or NoEntry
    kpc,         \* position of the @cached wrapper
    event,       \* the event the wrapper was called with
    served,      \* the wrapper's last answer and where it came from
    requests,    \* RateLimiter.requests: per identifier the times it keeps
    verdict,     \* what the last is_allowed call answered, or NoOutcome
    allowed_at,  \* per identifier: the times of all calls answered as allowed
    connpc,      \* position of the connections handler
    connreq,     \* the body it parsed, or NoBody
    node,        \* the entity get_by_id returned to it, or NoOutcome
    connhttp,    \* the HTTP response it returned, or NoHttp
    driver,      \* Neo4jClient.driver: the driver object, or NoDriver
    npc,         \* position of the Neo4jClient method in progress
    caller,      \* the method that is running connect()
    ran_on,      \* the driver the last query was run on, or NoDriver
    raised,      \* what the last method call raised, or None
    ops          \* method calls made on the client so far

searchVars == <<pc, request, created, call, taskResult, completed, localResults,
                aggInput, response, closed, rawQuery, validation>>

handlerVars == <<body, http>>

graphVars == <<gpc, args, records, nodes, edges, returned>>

clientVars == <<client, cpc, attempt_number, attempt_exc, search_result,
                current_state, failures, searches>>

matchVars == <<matcher, best>>

cacheVars == <<cache, kpc, event, served>>

limiterVars == <<requests, verdict, allowed_at>>

connVars == <<connpc, connreq, node, connhttp>>

neoVars == <<driver, npc, caller, ran_on, raised, ops>>

extVars == <<clientVars, matchVars, now, cacheVars, limiterVars, connVars, neoVars>>

vars == <<pc, request, created, call, taskResult, completed, localResults, aggInput,
          response, closed, rawQuery, validation, handlerVars, graphVars, extVars>>

-----------------------------------------------------------------------------
(* Generic sequence helpers                                                *)

Max2(a, b) == IF a >= b THEN a ELSE b

RECURSIVE MaxOfSeq(_)
MaxOfSeq(s) == IF Len(s) = 1 THEN s[1] ELSE Max2(s[1], MaxOfSeq(Tail(s)))

RECURSIVE SetMax(_)
SetMax(S) == LET x == CHOOSE y \in S : TRUE
             IN IF S = {x} THEN x ELSE Max2(x, SetMax(S \ {x}))

RECURSIVE Gcd(_, _)
Gcd(a, b) == IF b = 0 THEN a ELSE Gcd(b, a % b)

RECURSIVE LcmUpTo(_)
LcmUpTo(n) == IF n <= 1 THEN 1
              ELSE LET l == LcmUpTo(n - 1) IN (l * n) \div Gcd(l, n)

IsPrefixAt(p, s, i) ==
    /\ i + Len(p) - 1 <= Len(s)
    /\ \A k \in 1..Len(p) : s[i + k - 1] = p[k]

-----------------------------------------------------------------------------
(* FuzzyMatcher._normalize                                                 *)

UpperChars == <<"A","B","C","D","E","F","G","H","I","J","K","L","M",
                "N","O","P","Q","R","S","T","U","V","W","X","Y","Z">>
LowerChars == <<"a","b","c","d","e","f","g","h","i","j","k","l","m",
                "n","o","p","q","r","s","t","u","v","w","x","y","z">>

UpperToLower ==
    [c \in {UpperChars[i] : i \in 1..26} |->
        LowerChars[CHOOSE i \in 1..26 : UpperChars[i] = c]]

LowerChar(c) == IF c \in DOMAIN UpperToLower THEN UpperToLower[c] ELSE c

lower(s) == [i \in 1..Len(s) |-> LowerChar(s[i])]

SpaceChars == {" ", "\t"}
PunctChars == {".", ",", "-", "'"}

isspace(c) == c \in SpaceChars
isalnum(c) == c \notin SpaceChars /\ c \notin PunctChars

\* str.replace(old, ""): leftmost non-overlapping occurrences are removed
RECURSIVE RemoveAllFrom(_, _, _)
RemoveAllFrom(s, old, i) ==
    IF i > Len(s) THEN <<>>
    ELSE IF IsPrefixAt(old, s, i) THEN RemoveAllFrom(s, old, i + Len(old))
    ELSE <<s[i]>> \o RemoveAllFrom(s, old, i + 1)

Remove(s, old) == RemoveAllFrom(s, old, 1)

titles == <<
    <<"m","r",".">>, <<"m","r","s",".">>, <<"m","s",".">>, <<"m","i","s","s">>,
    <<"d","r",".">>, <<"p","r","o","f",".">>,
    <<"p","r","o","f","e","s","s","o","r">>, <<"s","i","r">>,
    <<"l","o","r","d">>, <<"l","a","d","y">>, <<"h","o","n",".">>,
    <<"r","e","v",".">>, <<"f","r",".">>, <<"s","r",".">> >>

suffixes == <<
    <<"j","r",".">>, <<"s","r",".">>, <<"i","i">>, <<"i","i","i">>,
    <<"i","v">>, <<"e","s","q",".">> >>

RECURSIVE RemoveEach(_, _)
RemoveEach(s, olds) ==
    IF olds = <<>> THEN s ELSE RemoveEach(Remove(s, Head(olds)), Tail(olds))

\* str.split(): the maximal runs of non-whitespace characters
RECURSIVE split(_)
split(s) ==
    IF s = <<>> THEN <<>>
    ELSE IF isspace(Head(s)) THEN split(Tail(s))
    ELSE LET rest == split(Tail(s))
         IN IF Len(s) > 1 /\ ~isspace(s[2])
            THEN <<(<<Head(s)>> \o Head(rest))>> \o Tail(rest)
            ELSE <<(<<Head(s)>>)>> \o rest

RECURSIVE join(_)
join(toks) ==
    IF toks = <<>> THEN <<>>
    ELSE IF Len(toks) = 1 THEN toks[1]
    ELSE toks[1] \o <<" ">> \o join(Tail(toks))

\* char if char.isalnum() or char.isspace() else ' '
KeepAlnum(s) ==
    [i \in 1..Len(s) |-> IF isalnum(s[i]) \/ isspace(s[i]) THEN s[i] ELSE " "]

normalize(text) ==
    join(split(KeepAlnum(RemoveEach(RemoveEach(lower(text), titles), suffixes))))

-----------------------------------------------------------------------------
(* The names the stub sources report, and the queries searched for         *)

AnnLee   == <<"A","n","n"," ","L","e","e">>
LeeAnn   == <<"L","e","e"," ","A","n","n">>
DrAnnLee == <<"D","r","."," ","A","n","n"," ","L","e","e">>
AnLee    == <<"A","n"," ","L","e","e">>
AnnRay   == <<"A","n","n"," ","R","a","y">>
BoRay    == <<"B","o"," ","R","a","y">>
annlee   == <<"a","n","n"," ","l","e","e">>

Queries == {AnnLee}
Names   == {AnnLee, LeeAnn, DrAnnLee, AnLee, AnnRay, BoRay, annlee}

-----------------------------------------------------------------------------
(* RapidFuzz scorers used by FuzzyMatcher, on normalized strings           *)

\* code-point order of the characters normalized strings are made of
CharOrder == <<" ">> \o LowerChars

CharRank(c) == CHOOSE i \in 1..Len(CharOrder) : CharOrder[i] = c

RECURSIVE StrLess(_, _)
StrLess(s, t) ==
    IF t = <<>> THEN FALSE
    ELSE IF s = <<>> THEN TRUE
    ELSE IF Head(s) = Head(t) THEN StrLess(Tail(s), Tail(t))
    ELSE CharRank(Head(s)) < CharRank(Head(t))

RECURSIVE InsertToken(_, _)
InsertToken(tok, sorted) ==
    IF sorted = <<>> THEN <<tok>>
    ELSE IF StrLess(tok, Head(sorted)) THEN <<tok>> \o sorted
    ELSE <<Head(sorted)>> \o InsertToken(tok, Tail(sorted))

RECURSIVE SortTokens(_)
SortTokens(toks) ==
    IF toks = <<>> THEN <<>> ELSE InsertToken(Head(toks), SortTokens(Tail(toks)))

MaxStrLen == SetMax({Len(normalize(n)) : n \in Names \cup Queries})

RECURSIVE Lcs(_, _)
Lcs(s, t) ==
    IF s = <<>> \/ t = <<>> THEN 0
    ELSE IF Head(s) = Head(t) THEN 1 + Lcs(Tail(s), Tail(t))
    ELSE Max2(Lcs(Tail(s), t), Lcs(s, Tail(t)))

\* scores are multiples of 100/(len1+len2) with len1, len2 <= MaxStrLen
ScoreUnit == LcmUpTo(2 * MaxStrLen)

Pct(n) == n * ScoreUnit

\* fuzz.ratio: 100 * (1 - indel_distance / (len1 + len2))
ratio(s, t) ==
    IF Len(s) + Len(t) = 0 THEN Pct(100)
    ELSE (Pct(100) * 2 * Lcs(s, t)) \div (Len(s) + Len(t))

token_sort_ratio(s, t) ==
    ratio(join(SortTokens(split(s))), join(SortTokens(split(t))))

\* the windows of the longer string the shorter one is aligned with
PartialWindows(len1, longer) ==
    LET len2 == Len(longer)
    IN  {SubSeq(longer, 1, i) : i \in 1..(len1 - 1)}
        \cup {SubSeq(longer, i, i + len1 - 1) : i \in 1..(len2 - len1)}
        \cup {SubSeq(longer, i, len2) : i \in (len2 - len1 + 1)..len2}

partial_ratio_impl(shorter, longer) ==
    IF Len(shorter) = 0 THEN (IF Len(longer) = 0 THEN Pct(100) ELSE 0)
    ELSE SetMax({ratio(shorter, w) : w \in PartialWindows(Len(shorter), longer)})

partial_ratio(s, t) ==
    IF Len(s) < Len(t) THEN partial_ratio_impl(s, t)
    ELSE IF Len(t) < Len(s) THEN partial_ratio_impl(t, s)
    ELSE Max2(partial_ratio_impl(s, t), partial_ratio_impl(t, s))

(* FuzzyMatcher.calculate_score                                            *)
\* lines 52-56: the higher of the two scores of the normalized strings
BestScore(query_normalized, candidate_normalized) ==
    Max2(token_sort_ratio(query_normalized, candidate_normalized),
         partial_ratio(query_normalized, candidate_normalized))

calculate_score(query, candidate) ==
    BestScore(normalize(query), normalize(candidate))

\* every score the aggregator can need, computed once
ScoreTable == [q \in Queries, n \in Names |-> calculate_score(q, n)]

-----------------------------------------------------------------------------
(* Entities as the source clients build them                               *)

None == "None"                    \* Python's None

\* variant: only None counts as "no error"
Truthy_NotNone(e) == e # None

Truthy(e) == e # None /\ e # ""   \* "if error:"

Sources == {"opensanctions", "sanctions_io", "offshore_leaks"}

\* OpenSanctionsService._parse_entity: match_score keeps the model default 100
OSEntity(id, name, aliases, sanctioned) ==
    [id |-> id, name |-> name, aliases |-> aliases, is_sanctioned |-> sanctioned,
     match_score |-> Pct(100), source |-> "opensanctions"]

\* SanctionsIoService._parse_entity: always sanctioned, match_score = 100
SIOEntity(id, name, aliases) ==
    [id |-> id, name |-> name, aliases |-> aliases, is_sanctioned |-> TRUE,
     match_score |-> Pct(100), source |-> "sanctions_io"]

\* convert_to_entity: a local/Supabase row as an OpenSanctionsEntity, always
\* sanctioned, carrying the store's own score
LocalEntity(id, name, aliases, store_score) ==
    [id |-> id, name |-> name, aliases |-> aliases, is_sanctioned |-> TRUE,
     match_score |-> Pct(store_score), source |-> "opensanctions"]

\* OffshoreLeaksService._parse_record: min(100, int(raw_score * 10))
OffshoreEntity(node_id, name, raw_score_tenths) ==
    [node_id |-> node_id, name |-> name,
     match_score |-> Pct(IF raw_score_tenths >= 100 THEN 100 ELSE raw_score_tenths),
     source |-> "offshore_leaks"]

OSPool == {
    OSEntity("os1", AnnLee, <<>>, TRUE),
    OSEntity("os2", AnLee, <<>>, FALSE),
    OSEntity("os3", BoRay, <<LeeAnn>>, FALSE) }

SIOPool == {
    SIOEntity("sio1", DrAnnLee, <<>>),
    SIOEntity("sio2", AnnRay, <<BoRay, AnLee>>),
    SIOEntity("sio3", AnnRay, <<>>) }

LocalPool == {
    LocalEntity("ofac1", annlee, <<>>, 100),
    LocalEntity("eu7", AnnRay, <<>>, 72) }

OffshorePool == {
    OffshoreEntity(11, AnnLee, 34),
    OffshoreEntity(12, BoRay, 120) }

\* the lists of distinct members of pool of length at most n
RECURSIVE ListsUpTo(_, _)
ListsUpTo(pool, n) ==
    IF n = 0 THEN {<<>>}
    ELSE LET shorter == ListsUpTo(pool, n - 1)
         IN shorter \cup
            {Append(l, e) : l \in {x \in shorter : Len(x) = n - 1},
                            e \in pool}

Distinct(l) == \A i, j \in 1..Len(l) : i # j => l[i] # l[j]

ResultLists(pool, n) == {l \in ListsUpTo(pool, n) : Distinct(l)}

-----------------------------------------------------------------------------
(* ResultAggregator                                                        *)

ScoreGreater(a, b) == a.match_score > b.match_score

\* variant: the sort key is the match score alone
RankGreater_ScoreOnly(a, b) == a.match_score > b.match_score

\* key=lambda x: (x.is_sanctioned, x.match_score), tuples compared in order
RankGreater(a, b) ==
    \/ a.is_sanctioned /\ ~b.is_sanctioned
    \/ a.is_sanctioned = b.is_sanctioned /\ a.match_score > b.match_score

\* variant: an element is also moved in front of elements with an equal key
KeyGreater_OrEqual(a, b, key) ==
    IF key = "rank" THEN ~RankGreater(b, a) ELSE ~ScoreGreater(b, a)

KeyGreater(a, b, key) ==
    IF key = "rank" THEN RankGreater(a, b) ELSE ScoreGreater(a, b)

\* list.sort(key=..., reverse=True): stable, descending by the key
RECURSIVE InsertDesc(_, _, _)
InsertDesc(x, sorted, key) ==
    IF sorted = <<>> THEN <<x>>
    ELSE IF KeyGreater(x, Head(sorted), key) THEN <<x>> \o sorted
    ELSE <<Head(sorted)>> \o InsertDesc(x, Tail(sorted), key)

RECURSIVE SortDesc(_, _)
SortDesc(l, key) ==
    IF l = <<>> THEN <<>>
    ELSE InsertDesc(l[Len(l)], SortDesc(SubSeq(l, 1, Len(l) - 1), key), key)

AliasScores(query, result) ==
    [i \in 1..Len(result.aliases) |-> ScoreTable[query, result.aliases[i]]]

Skipped == -1    \* the loop body ended in "continue"

\* variant: an exact alias hit keeps the score of the primary name
Filter_ExactKeepsNameScore(score, alias_scores, search_type, fuzzy_threshold) ==
    IF search_type = "exact"
    THEN IF score < Pct(100)
         THEN IF ~(\E i \in DOMAIN alias_scores : alias_scores[i] = Pct(100))
              THEN Skipped
              ELSE score
         ELSE score
    ELSE IF score < Pct(fuzzy_threshold)
         THEN IF alias_scores # <<>> /\ MaxOfSeq(alias_scores) >= Pct(fuzzy_threshold)
              THEN MaxOfSeq(alias_scores) ELSE Skipped
         ELSE score

\* variant: fuzzy mode never looks at the aliases
Filter_NoAliasFallback(score, alias_scores, search_type, fuzzy_threshold) ==
    IF search_type = "exact"
    THEN IF score < Pct(100)
         THEN IF ~(\E i \in DOMAIN alias_scores : alias_scores[i] = Pct(100))
              THEN Skipped
              ELSE Pct(100)
         ELSE score
    ELSE IF score < Pct(fuzzy_threshold) THEN Skipped ELSE score

\* lines 222-224: the score after the alias substitution, or Skipped
FuzzyAliasScore(score, alias_scores, fuzzy_threshold) ==
    IF (IF alias_scores # <<>> THEN MaxOfSeq(alias_scores) ELSE score)
           < Pct(fuzzy_threshold)
    THEN Skipped
    ELSE (IF alias_scores # <<>> THEN MaxOfSeq(alias_scores) ELSE score)

\* lines 200-224: the filter applied to the name score and the alias scores
\* of one result: the score the entity is kept with, or Skipped
Filter(score, alias_scores, search_type, fuzzy_threshold) ==
    IF search_type = "exact"
    THEN IF score < Pct(100)
         THEN IF ~(\E i \in DOMAIN alias_scores : alias_scores[i] = Pct(100))
              THEN Skipped
              ELSE Pct(100)
         ELSE score
    ELSE IF search_type = "fuzzy"
    THEN IF score < Pct(fuzzy_threshold)
         THEN FuzzyAliasScore(score, alias_scores, fuzzy_threshold)
         ELSE score
    ELSE score

\* the body of the loop of _score_results for one result
ScoreOne(query, result, search_type, fuzzy_threshold) ==
    Filter(ScoreTable[query, result.name], AliasScores(query, result),
           search_type, fuzzy_threshold)

\* variant: kept entities are appended without "result.match_score = score"
Keep_SourceScore(result, score, rest) ==
    IF score = Skipped THEN rest ELSE <<result>> \o rest

\* lines 226-228 or "continue": the kept list after one result
Keep(result, score, rest) ==
    IF score = Skipped THEN rest
    ELSE <<[result EXCEPT !.match_score = score]>> \o rest

RECURSIVE ScoreLoop(_, _, _, _)
ScoreLoop(query, results, search_type, fuzzy_threshold) ==
    IF results = <<>> THEN <<>>
    ELSE Keep(Head(results),
              ScoreOne(query, Head(results), search_type, fuzzy_threshold),
              ScoreLoop(query, Tail(results), search_type, fuzzy_threshold))

score_results(query, results, search_type, fuzzy_threshold) ==
    SortDesc(ScoreLoop(query, results, search_type, fuzzy_threshold), "score")

CountSanctioned(l) == Cardinality({i \in 1..Len(l) : l[i].is_sanctioned})

SourceResults(results, sanctioned_count, error) ==
    [found |-> Len(results) > 0, count |-> Len(results),
     sanctioned_count |-> sanctioned_count, error |-> error, results |-> results]

NoResponse == [total_results |-> -1]

\* lines 124-175: the response built from the scored lists and all_results
BuildResponse(query, search_type, fuzzy_threshold, in, sources_searched, opensanctions_scored, sanctions_io_scored, all_results) ==
    [query |-> query,
     search_type |-> search_type,
     results_by_source |->
        [opensanctions  |-> SourceResults(opensanctions_scored,
                                CountSanctioned(opensanctions_scored),
                                in.opensanctions.error),
         sanctions_io   |-> SourceResults(sanctions_io_scored,
                                CountSanctioned(sanctions_io_scored),
                                in.sanctions_io.error),
         offshore_leaks |-> SourceResults(in.offshore_leaks.results, 0,
                                in.offshore_leaks.error)],
     all_results |-> all_results,
     total_results |-> Len(all_results),
     total_sanctioned |-> CountSanctioned(all_results),
     sources_searched |-> sources_searched,
     sources_succeeded |-> {s \in sources_searched : ~Truthy(in[s].error)},
     sources_failed |-> {s \in sources_searched : Truthy(in[s].error)},
     fuzzy_threshold |-> IF search_type = "fuzzy" THEN <<fuzzy_threshold>> ELSE <<>>]

\* lines 112-121: both scored lists concatenated, then sorted
Combine(query, search_type, fuzzy_threshold, in, sources_searched, opensanctions_scored, sanctions_io_scored) ==
    BuildResponse(query, search_type, fuzzy_threshold, in, sources_searched,
                  opensanctions_scored, sanctions_io_scored,
                  SortDesc(opensanctions_scored \o sanctions_io_scored, "rank"))

\* ResultAggregator.aggregate; in is the record of its result and error
\* arguments
aggregate(query, search_type, fuzzy_threshold, in, sources_requested) ==
    Combine(query, search_type, fuzzy_threshold, in,
            IF sources_requested # {} THEN sources_requested ELSE Sources,
            score_results(query, in.opensanctions.results, search_type,
                          fuzzy_threshold),
            score_results(query, in.sanctions_io.results, search_type,
                          fuzzy_threshold))

-----------------------------------------------------------------------------
(* perform_search: one request                                             *)

MaxLimit == 2                    \* largest request.limit explored (code: 50)

Limits      == 1..MaxLimit
Thresholds  == {50, 80, 100}
SearchTypes == {"exact", "fuzzy"}

Requests ==
    [query : Queries, search_type : SearchTypes,
     sources : (SUBSET Sources) \ {{}}, limit : Limits,
     fuzzy_threshold : Thresholds]

Pool(s) ==
    CASE s = "opensanctions"  -> OSPool
      [] s = "sanctions_io"   -> SIOPool
      [] s = "offshore_leaks" -> OffshorePool

\* what service.search(query, limit) can do: return at most limit entities,
\* or raise APITimeoutError, APIError or another exception
\* the ways a service's search() call can fail
ServiceFaults(s) ==
    {"timeout", "api_error", "circuit_open", "malformed", "exception"}
    \cup (IF s = "sanctions_io" THEN {"missing_api_key"} ELSE {})

ServiceOutcomes(s, limit) ==
    {[kind |-> "ok", results |-> l] : l \in ResultLists(Pool(s), limit)}
    \cup {[kind |-> k, results |-> <<>>] : k \in ServiceFaults(s)}

NoResult == [results |-> <<>>, error |-> None]

\* the exception service.search raises for each fault: the services turn
\* every httpx or parsing failure into APIError or APITimeoutError; only an
\* exception raised outside their try block reaches the caller unchanged
Raised(source_name, fault) ==
    CASE fault = "timeout" ->
            [type |-> "APITimeoutError", message |-> "API request timed out after 5.0s"]
      [] fault = "api_error" ->
            [type |-> "APIError", message |-> "API error: 500"]
      [] fault = "missing_api_key" ->
            [type |-> "APIError", message |-> "Sanctions.io API key not configured"]
      [] fault = "circuit_open" ->
            [type |-> "APIError", message |-> "service temporarily unavailable"]
      [] fault = "malformed" ->
            [type |-> "APIError", message |-> "Unexpected error: invalid entity"]
      [] OTHER ->
            [type |-> "Exception", message |-> "boom"]

\* what search_source does with an exception no except clause matches
Propagated(exc) == [results |-> <<>>, error |-> None, raised |-> exc.type]

\* variant: search_source without its last clause, "except Exception"
Except_NoCatchAll(exc) ==
    CASE exc.type = "APITimeoutError" ->
            [results |-> <<>>, error |-> "Request timed out"]
      [] exc.type = "APIError" ->
            [results |-> <<>>, error |-> exc.message]
      [] OTHER -> Propagated(exc)

\* lines 173-197: the except clauses of search_source
Except(exc) ==
    CASE exc.type = "APITimeoutError" ->
            [results |-> <<>>, error |-> "Request timed out"]
      [] exc.type = "APIError" ->
            [results |-> <<>>, error |-> exc.message]
      [] exc.type = "Exception" ->
            [results |-> <<>>, error |-> "Unexpected error: " \o exc.message]
      [] OTHER -> Propagated(exc)

\* search_source: the (results, error) pair for each outcome of the service
search_source(source_name, outcome) ==
    IF outcome.kind = "ok"
    THEN [results |-> outcome.results, error |-> None]
    ELSE Except(Raised(source_name, outcome.kind))

\* the coroutines handed to asyncio.gather
Tasks(req) == req.sources \cap {"opensanctions", "sanctions_io"}

\* lines 218-243: the awaitables in the order they are appended to tasks
TaskList(req) ==
    (IF "opensanctions" \in req.sources THEN <<"opensanctions">> ELSE <<>>)
    \o (IF "sanctions_io" \in req.sources THEN <<"sanctions_io">> ELSE <<>>)

\* lines 231, 243, 257, 270: offshore_leaks is appended after the HTTP sources
task_sources(req) ==
    TaskList(req)
    \o (IF "offshore_leaks" \in req.sources THEN <<"offshore_leaks">> ELSE <<>>)

\* variant: the results are listed in the order the tasks finished
gather_CompletionOrder(tasks, finished, tr) ==
    [i \in 1..Len(finished) |-> tr[finished[i]]]

\* asyncio.gather: the results are listed in the order of the awaitables
gather(tasks, finished, tr) == [i \in 1..Len(tasks) |-> tr[tasks[i]]]

\* lines 282-294: the pair the extraction loop leaves for an HTTP source
Extracted(results, sources_seq, s) ==
    IF \E i \in 1..Len(results) : sources_seq[i] = s
    THEN results[CHOOSE i \in 1..Len(results) : sources_seq[i] = s]
    ELSE NoResult

\* variant: the wait returns as soon as one task has finished
GatherReady_Any(c, tasks) == tasks = {} \/ \E s \in tasks : c[s] = "done"

\* asyncio.gather(*tasks) returns once every task has finished
GatherReady(c, tasks) == \A s \in tasks : c[s] = "done"

\* lines 300-318: local sanctions rows are merged into the OpenSanctions list
RECURSIVE AppendNew(_, _)
AppendNew(results, local_results) ==
    IF local_results = <<>> THEN results
    ELSE LET local_entity   == Head(local_results)
             existing_names == {lower(results[i].name) : i \in 1..Len(results)}
         IN IF lower(local_entity.name) \notin existing_names
            THEN AppendNew(Append(results, local_entity), Tail(local_results))
            ELSE AppendNew(results, Tail(local_results))

\* variant: a failed OpenSanctions call has its error cleared even when the
\* local search found nothing
MergeLocal_AlwaysClear(os, local_results) ==
    IF Truthy(os.error) /\ os.results = <<>>
    THEN [results |-> local_results, error |-> None]
    ELSE IF local_results # <<>>
    THEN [results |-> AppendNew(os.results, local_results), error |-> os.error]
    ELSE os

MergeLocal(os, local_results) ==
    IF local_results # <<>>
    THEN IF Truthy(os.error) /\ os.results = <<>>
         THEN [results |-> local_results, error |-> None]
         ELSE [results |-> AppendNew(os.results, local_results), error |-> os.error]
    ELSE os

\* lines 246-248, 282-318: the (results, error) pair of source s after the
\* extraction loop and the merge of the local rows
JoinInput(s, results, sources_seq, tr, local_results) ==
    IF s = "offshore_leaks" THEN tr[s]
    ELSE IF s = "opensanctions"
    THEN MergeLocal(Extracted(results, sources_seq, s), local_results)
    ELSE Extracted(results, sources_seq, s)

NoBody == [query |-> <<>>]

NoHttp == [statusCode |-> 0, error |-> None]

\* no handler invocation is in progress
HandlerIdle == body = NoBody /\ http = NoHttp

NoRecords == [status |-> "none", rows |-> <<>>]

NoOutcome == [kind |-> "none"]

\* no graph store operation is in progress
GraphIdle ==
    /\ gpc = "idle"
    /\ args = [node_id |-> 0, depth |-> 0, max_nodes |-> 0]
    /\ records = NoRecords
    /\ nodes = <<>>
    /\ edges = <<>>
    /\ returned = NoOutcome

NoClient == [name |-> "none", api_key |-> None]

\* no remote API client is at work
ClientIdle ==
    /\ client = NoClient
    /\ cpc = "idle"
    /\ attempt_number = 0
    /\ attempt_exc = NoOutcome
    /\ search_result = NoOutcome
    /\ current_state = "closed"
    /\ failures = 0
    /\ searches = 0

NoMatcher == [threshold |-> 0, query |-> <<>>, candidates |-> <<>>]

MatchIdle == matcher = NoMatcher /\ best = NoOutcome

NoEntry == [expires_at |-> 0, created_at |-> 0, value |-> NoHttp]

NoEvent == [httpMethod |-> None, body |-> None]

CacheIdle ==
    /\ cache = <<>>
    /\ kpc = "idle"
    /\ event = NoEvent
    /\ served = NoOutcome

LimiterIdle == requests = <<>> /\ verdict = NoOutcome /\ allowed_at = <<>>

ConnIdle ==
    /\ connpc = "idle"
    /\ connreq = NoBody
    /\ node = NoOutcome
    /\ connhttp = NoHttp

NoDriver == [gen |-> 0, verified |-> FALSE]

NeoIdle ==
    /\ driver = NoDriver
    /\ npc = "idle"
    /\ caller = "none"
    /\ ran_on = NoDriver
    /\ raised = None
    /\ ops = 0

ExtIdle ==
    /\ ClientIdle
    /\ MatchIdle
    /\ now = 0
    /\ CacheIdle
    /\ LimiterIdle
    /\ ConnIdle
    /\ NeoIdle

Init ==
    /\ pc = "start"
    /\ request \in Requests
    /\ created = {}
    /\ call = [s \in Sources |-> "none"]
    /\ taskResult = [s \in Sources |-> NoResult]
    /\ completed = <<>>
    /\ localResults = <<>>
    /\ aggInput = [s \in Sources |-> NoResult]
    /\ response = NoResponse
    /\ closed = [s \in Sources |-> 0]
    /\ rawQuery = <<>>
    /\ validation = "none"
    /\ HandlerIdle
    /\ GraphIdle
    /\ ExtIdle

\* lines 212-214: the two HTTP services and the aggregator are constructed
Construct ==
    /\ pc = "start"
    /\ created' = {"opensanctions", "sanctions_io"}
    /\ pc' = "dispatch"
    /\ UNCHANGED <<request, call, taskResult, localResults, aggInput, response, closed,
                   rawQuery, validation, completed, handlerVars, graphVars, extVars>>

\* lines 218-243: a coroutine object is created for each requested HTTP source
Dispatch ==
    /\ pc = "dispatch"
    /\ call' = [s \in Sources |-> IF s \in Tasks(request) THEN "created" ELSE call[s]]
    /\ pc' = "offshore"
    /\ UNCHANGED <<request, created, taskResult, localResults, aggInput, response, closed,
                   rawQuery, validation, completed, handlerVars, graphVars, extVars>>

\* line 250: offshore_leaks was not requested
OffshoreSkip ==
    /\ pc = "offshore"
    /\ "offshore_leaks" \notin request.sources
    /\ pc' = "gather"
    /\ UNCHANGED <<request, created, call, taskResult, localResults, aggInput, response,
                   closed, rawQuery, validation, completed, handlerVars, graphVars, extVars>>

\* line 252 raises (no graph store credentials): caught at line 263
OffshoreConstructFails ==
    /\ pc = "offshore"
    /\ "offshore_leaks" \in request.sources
    /\ taskResult' = [taskResult EXCEPT !["offshore_leaks"] =
            [results |-> <<>>, error |-> "Neo4j credentials not configured"]]
    /\ pc' = "gather"
    /\ UNCHANGED <<request, created, call, localResults, aggInput, response, closed,
                   rawQuery, validation, completed, handlerVars, graphVars, extVars>>

\* lines 252-253: the service is constructed and its search is awaited inline
OffshoreStart ==
    /\ pc = "offshore"
    /\ "offshore_leaks" \in request.sources
    /\ created' = created \cup {"offshore_leaks"}
    /\ call' = [call EXCEPT !["offshore_leaks"] = "running"]
    /\ pc' = "await_offshore"
    /\ UNCHANGED <<request, taskResult, localResults, aggInput, response, closed,
                   rawQuery, validation, completed, handlerVars, graphVars, extVars>>

\* lines 253-270: the awaited offshore search returns or raises
OffshoreComplete ==
    /\ pc = "await_offshore"
    /\ \E o \in {[kind |-> "ok", results |-> l] :
                    l \in ResultLists(OffshorePool, request.limit)}
                \cup {[kind |-> "api_error", results |-> <<>>]} :
          taskResult' = [taskResult EXCEPT !["offshore_leaks"] =
              IF o.kind = "ok"
              THEN [results |-> o.results, error |-> None]
              ELSE [results |-> <<>>, error |-> "Offshore search failed: boom"]]
    /\ call' = [call EXCEPT !["offshore_leaks"] = "done"]
    /\ pc' = "gather"
    /\ UNCHANGED <<request, created, localResults, aggInput, response, closed,
                   rawQuery, validation, completed, handlerVars, graphVars, extVars>>

\* line 279: asyncio.gather schedules every coroutine and suspends
GatherStart ==
    /\ pc = "gather"
    /\ call' = [s \in Sources |-> IF s \in Tasks(request) THEN "running" ELSE call[s]]
    /\ pc' = "await_gather"
    /\ UNCHANGED <<request, created, taskResult, localResults, aggInput, response, closed,
                   rawQuery, validation, completed, handlerVars, graphVars, extVars>>

\* lines 140-197: one running search_source task runs to its return
TaskComplete(s) ==
    /\ pc = "await_gather"
    /\ call[s] = "running"
    /\ \E o \in ServiceOutcomes(s, request.limit) :
          taskResult' = [taskResult EXCEPT ![s] = search_source(s, o)]
    /\ call' = [call EXCEPT ![s] = "done"]
    /\ completed' = Append(completed, s)
    /\ UNCHANGED <<pc, request, created, localResults, aggInput, response, closed,
                   rawQuery, validation, handlerVars, graphVars, extVars>>

\* lines 279-318: gather returns its list of results and forgets the order
\* the tasks finished in, results are extracted, the local sanctions search
\* runs and its rows are merged into the OpenSanctions results
GatherJoin ==
    /\ pc = "await_gather"
    /\ GatherReady(call, Tasks(request))
    /\ \E local_results \in ResultLists(LocalPool, request.limit) :
          /\ localResults' = local_results
          /\ aggInput' = [s \in Sources |->
                JoinInput(s, gather(TaskList(request), completed, taskResult),
                          task_sources(request), taskResult, local_results)]
    /\ completed' = <<>>
    /\ pc' = "aggregate"
    /\ UNCHANGED <<request, created, call, taskResult, response, closed,
                   rawQuery, validation, handlerVars, graphVars, extVars>>

\* lines 322-334: aggregator.aggregate builds the response
Aggregate ==
    /\ pc = "aggregate"
    /\ response' = aggregate(request.query, request.search_type,
                             request.fuzzy_threshold, aggInput, request.sources)
    /\ pc' = "close_opensanctions"
    /\ UNCHANGED <<request, created, call, taskResult, localResults, aggInput, closed,
                   rawQuery, validation, completed, handlerVars, graphVars, extVars>>

\* the next statement of the finally block after closing service s
AfterClose(s) ==
    CASE s = "opensanctions" -> "close_sanctions_io"
      [] s = "sanctions_io"  -> "close_offshore_leaks"
      [] OTHER               -> "returned"

\* lines 338-341: close() of service s returns normally
CloseOk(s) ==
    /\ pc = "close_" \o s
    /\ s \in created
    /\ closed' = [closed EXCEPT ![s] = @ + 1]
    /\ pc' = AfterClose(s)
    /\ UNCHANGED <<request, created, call, taskResult, localResults, aggInput, response,
                   rawQuery, validation, completed, handlerVars, graphVars, extVars>>

\* lines 338-341: close() of service s raises; the exception leaves the
\* finally block and perform_search
CloseRaises(s) ==
    /\ pc = "close_" \o s
    /\ s \in created
    /\ closed' = [closed EXCEPT ![s] = @ + 1]
    /\ pc' = "raised"
    /\ UNCHANGED <<request, created, call, taskResult, localResults, aggInput, response,
                   rawQuery, validation, completed, handlerVars, graphVars, extVars>>

\* line 340: "if offshore_service:" is false
CloseSkip ==
    /\ pc = "close_offshore_leaks"
    /\ "offshore_leaks" \notin created
    /\ pc' = "returned"
    /\ UNCHANGED <<request, created, call, taskResult, localResults, aggInput, response,
                   closed, rawQuery, validation, completed, handlerVars, graphVars, extVars>>

Next ==
    \/ Construct
    \/ Dispatch
    \/ OffshoreSkip
    \/ OffshoreConstructFails
    \/ OffshoreStart
    \/ OffshoreComplete
    \/ GatherStart
    \/ \E s \in Sources : TaskComplete(s)
    \/ GatherJoin
    \/ Aggregate
    \/ \E s \in Sources : CloseOk(s)
    \/ \E s \in Sources : CloseRaises(s)
    \/ CloseSkip

Spec == Init /\ [][Next]_vars

-----------------------------------------------------------------------------
(* ResultAggregator.aggregate applied to arbitrary arguments               *)

MaxAggLen == 2                   \* longest result list handed to aggregate

AggErrors == {None, "", "boom"}

\* the (results, error) arguments of one source
AggArgs(s) ==
    [results : ResultLists(Pool(s), MaxAggLen), error : AggErrors]

\* sources_requested may be empty (None): aggregate then reports all sources
AggRequests ==
    [query : Queries, search_type : SearchTypes, sources : SUBSET Sources,
     limit : {MaxAggLen}, fuzzy_threshold : Thresholds]

AggInit ==
    /\ pc = "aggregate"
    /\ request \in AggRequests
    /\ aggInput \in {[opensanctions |-> a, sanctions_io |-> b, offshore_leaks |-> c] :
                        a \in AggArgs("opensanctions"), b \in AggArgs("sanctions_io"),
                        c \in AggArgs("offshore_leaks")}
    /\ created = {}
    /\ call = [s \in Sources |-> "none"]
    /\ taskResult = [s \in Sources |-> NoResult]
    /\ completed = <<>>
    /\ localResults = <<>>
    /\ response = NoResponse
    /\ closed = [s \in Sources |-> 0]
    /\ rawQuery = <<>>
    /\ validation = "none"
    /\ HandlerIdle
    /\ GraphIdle
    /\ ExtIdle

AggNext == Aggregate

AggSpec == AggInit /\ [][AggNext]_vars

-----------------------------------------------------------------------------
(* SearchRequest validation of the query field                             *)

min_length == 2
max_length == 200

MaxRawLen == 4                   \* longest request body query explored

NUL == "NUL"                     \* a control character that is not whitespace

RawChars == {"a", " ", "\t", NUL}

RECURSIVE StringsUpTo(_, _)
StringsUpTo(chars, n) ==
    IF n = 0 THEN {<<>>}
    ELSE LET shorter == StringsUpTo(chars, n - 1)
         IN shorter \cup
            {Append(l, c) : l \in {x \in shorter : Len(x) = n - 1}, c \in chars}

RawQueries == StringsUpTo(RawChars, MaxRawLen)

isprintable(c) == c \notin {"\t", NUL}

\* str.strip(): leading and trailing whitespace removed
RECURSIVE lstrip(_)
lstrip(v) == IF v # <<>> /\ isspace(Head(v)) THEN lstrip(Tail(v)) ELSE v

RECURSIVE rstrip(_)
rstrip(v) ==
    IF v # <<>> /\ isspace(v[Len(v)]) THEN rstrip(SubSeq(v, 1, Len(v) - 1)) ELSE v

strip(v) == rstrip(lstrip(v))

RECURSIVE Printable(_)
Printable(v) ==
    IF v = <<>> THEN <<>>
    ELSE IF isprintable(Head(v)) THEN <<Head(v)>> \o Printable(Tail(v))
    ELSE Printable(Tail(v))

Rejected == <<"ValidationError">>

\* the Field constraints of query, checked on the value as received
QueryConstraintsHold(v) == Len(v) >= min_length /\ Len(v) <= max_length

\* SearchRequest.validate_query, run on a value that passed the constraints
validate_query(v) ==
    LET stripped == strip(v)
    IN IF stripped = <<>> THEN Rejected ELSE <<"ok", Printable(stripped)>>

\* the query field of SearchRequest(**body): constraints, then the validator
ValidatedQuery(v) ==
    IF ~QueryConstraintsHold(v) THEN Rejected ELSE validate_query(v)

DefaultRequest ==
    [query |-> <<>>, search_type |-> "exact",
     sources |-> {"opensanctions", "sanctions_io"}, limit |-> 10,
     fuzzy_threshold |-> 80]

InitRequest ==
    /\ pc = "validate"
    /\ rawQuery \in RawQueries
    /\ validation = "none"
    /\ request = DefaultRequest
    /\ created = {}
    /\ call = [s \in Sources |-> "none"]
    /\ taskResult = [s \in Sources |-> NoResult]
    /\ completed = <<>>
    /\ localResults = <<>>
    /\ aggInput = [s \in Sources |-> NoResult]
    /\ response = NoResponse
    /\ closed = [s \in Sources |-> 0]
    /\ HandlerIdle
    /\ GraphIdle
    /\ ExtIdle

\* handler line 384: SearchRequest(**body) validates the query
ValidateRequest ==
    /\ pc = "validate"
    /\ LET r == ValidatedQuery(rawQuery)
       IN IF r = Rejected
          THEN /\ validation' = "rejected"
               /\ pc' = "rejected"
               /\ UNCHANGED request
          ELSE /\ validation' = "accepted"
               /\ pc' = "start"
               /\ request' = [request EXCEPT !.query = r[2]]
    /\ UNCHANGED <<created, call, taskResult, localResults, aggInput, response, closed, rawQuery,
                   completed, handlerVars, graphVars, extVars>>

NextRequest == ValidateRequest

RequestSpec == InitRequest /\ [][NextRequest]_vars

-----------------------------------------------------------------------------
(* handler: request validation, perform_search, the HTTP response          *)

limit_ge == 1
limit_le == 50
fuzzy_threshold_ge == 50
fuzzy_threshold_le == 100

\* a query one character longer than max_length
TooLong == [i \in 1..(max_length + 1) |-> "a"]

BodyQueries == {AnnLee, <<"A">>, <<" ", " ">>, TooLong}

Bodies ==
    [query : BodyQueries, search_type : SearchTypes, sources : SUBSET Sources,
     limit : Limits \cup {limit_ge - 1, limit_le + 1},
     fuzzy_threshold : Thresholds \cup {fuzzy_threshold_ge - 1, fuzzy_threshold_le + 1}]

\* variant: an empty sources list is accepted
validate_sources_AcceptsEmpty(v) == TRUE

\* SearchRequest.validate_sources: TRUE when the validator returns v
validate_sources(v) == ~(v = {} \/ Cardinality(v) = 0)

\* Field(ge=..., le=...) of an int field
InRange(v, ge, le) == v >= ge /\ v <= le

\* SearchRequest(**body) raises no ValidationError
SearchRequestValid(b) ==
    /\ ValidatedQuery(b.query) # Rejected
    /\ validate_sources(b.sources)
    /\ InRange(b.limit, limit_ge, limit_le)
    /\ InRange(b.fuzzy_threshold, fuzzy_threshold_ge, fuzzy_threshold_le)

\* the SearchRequest built from a body that passed validation
SearchRequest(b) == [b EXCEPT !.query = ValidatedQuery(b.query)[2]]

HandlerInit ==
    /\ pc = "handler"
    /\ body \in Bodies
    /\ http = NoHttp
    /\ request = DefaultRequest
    /\ created = {}
    /\ call = [s \in Sources |-> "none"]
    /\ taskResult = [s \in Sources |-> NoResult]
    /\ completed = <<>>
    /\ localResults = <<>>
    /\ aggInput = [s \in Sources |-> NoResult]
    /\ response = NoResponse
    /\ closed = [s \in Sources |-> 0]
    /\ rawQuery = <<>>
    /\ validation = "none"
    /\ GraphIdle
    /\ ExtIdle

\* handler lines 384 and 412-428: the body is validated; a ValidationError
\* is answered with status 400
HandlerValidate ==
    /\ pc = "handler"
    /\ IF SearchRequestValid(body)
       THEN /\ request' = SearchRequest(body)
            /\ pc' = "start"
            /\ UNCHANGED http
       ELSE /\ http' = [statusCode |-> 400, error |-> "ValidationError"]
            /\ pc' = "responded"
            /\ UNCHANGED request
    /\ UNCHANGED <<created, call, taskResult, localResults, aggInput, response, closed,
                   rawQuery, validation, completed, body, graphVars, extVars>>

\* handler lines 395-410: perform_search returned its response
HandlerReturn ==
    /\ pc = "returned"
    /\ http' = [statusCode |-> 200, error |-> None]
    /\ pc' = "responded"
    /\ UNCHANGED <<request, created, call, taskResult, localResults, aggInput, response,
                   closed, rawQuery, validation, completed, body, graphVars, extVars>>

\* handler lines 430-447: perform_search raised
HandlerInternalError ==
    /\ pc = "raised"
    /\ http' = [statusCode |-> 500, error |-> "InternalError"]
    /\ pc' = "responded"
    /\ UNCHANGED <<request, created, call, taskResult, localResults, aggInput, response,
                   closed, rawQuery, validation, completed, body, graphVars, extVars>>

HandlerNext ==
    \/ HandlerValidate
    \/ Construct
    \/ Dispatch
    \/ OffshoreSkip
    \/ OffshoreConstructFails
    \/ OffshoreStart
    \/ OffshoreComplete
    \/ GatherStart
    \/ \E s \in Sources : TaskComplete(s)
    \/ GatherJoin
    \/ Aggregate
    \/ \E s \in Sources : CloseOk(s)
    \/ \E s \in Sources : CloseRaises(s)
    \/ CloseSkip
    \/ HandlerReturn
    \/ HandlerInternalError

HandlerSpec == HandlerInit /\ [][HandlerNext]_vars

-----------------------------------------------------------------------------
(* The graph store and the Cypher queries sent to it                       *)

\* the nodes of the store: native id, name property, labels(n)[0]
StoreNodes == {
    [id |-> 1, name |-> "Acme Holdings", label |-> "Entity"],
    [id |-> 2, name |-> "Ann Lee",       label |-> "Officer"],
    [id |-> 3, name |-> None,            label |-> "Intermediary"],
    [id |-> 4, name |-> "1 Main Street", label |-> "Address"],
    [id |-> 5, name |-> "Trust 5",       label |-> "Other"],
    [id |-> 6, name |-> "Lone Ltd",      label |-> "Entity"] }

\* the relationships of the store; 101 and 102 join the same nodes with the
\* same type, and node 6 is isolated
StoreRels == {
    [id |-> 101, start |-> 2, end |-> 1, type |-> "officer_of"],
    [id |-> 102, start |-> 2, end |-> 1, type |-> "officer_of"],
    [id |-> 103, start |-> 3, end |-> 1, type |-> "intermediary_of"],
    [id |-> 104, start |-> 1, end |-> 4, type |-> "registered_address"],
    [id |-> 105, start |-> 5, end |-> 4, type |-> "registered_address"] }

NodeIds == {n.id : n \in StoreNodes} \cup {9}   \* 9: no node has this id

StoreNode(id) == CHOOSE n \in StoreNodes : n.id = id

\* Cypher toString() of a native id
toString(id) ==
    CASE id = 1 -> "1" [] id = 2 -> "2" [] id = 3 -> "3" [] id = 4 -> "4"
      [] id = 5 -> "5" [] id = 6 -> "6" [] id = 9 -> "9"
      [] id = 101 -> "101" [] id = 102 -> "102" [] id = 103 -> "103"
      [] id = 104 -> "104" [] id = 105 -> "105"

\* the relationships at node n, in either direction
Incident(n) == {r \in StoreRels : r.start = n \/ r.end = n}

OtherEnd(r, n) == IF r.start = n THEN r.end ELSE r.start

RelsIn(path) == {path.rels[i] : i \in 1..Len(path.rels)}

\* (start)-[*k]-(connected): the paths of exactly k relationships, none of
\* them used twice in one path
RECURSIVE PathsOfLen(_, _)
PathsOfLen(start, k) ==
    IF k = 1
    THEN {[rels |-> <<r>>, last |-> OtherEnd(r, start)] : r \in Incident(start)}
    ELSE UNION {{[rels |-> Append(path.rels, r), last |-> OtherEnd(r, path.last)] :
                    r \in Incident(path.last) \ RelsIn(path)} :
                path \in PathsOfLen(start, k - 1)}

\* MATCH path = (start)-[*1..depth]-(connected)
Paths(start, depth) == UNION {PathsOfLen(start, k) : k \in 1..depth}

\* LIMIT $max_nodes without ORDER BY: any max_nodes of the matched paths
Limited(paths, max_nodes) ==
    {kept \in SUBSET paths :
        Cardinality(kept) = (IF Cardinality(paths) < max_nodes
                             THEN Cardinality(paths) ELSE max_nodes)}

\* the members of a set of records in ascending order of their native id
RECURSIVE ById(_)
ById(set) ==
    IF set = {} THEN <<>>
    ELSE LET first == CHOOSE x \in set : \A y \in set : x.id <= y.id
         IN <<first>> \o ById(set \ {first})

\* nodes(p) over the kept paths, DISTINCT
NodesOn(kept) ==
    {StoreNode(n) : n \in UNION {{r.start, r.end} : r \in UNION {RelsIn(path) : path \in kept}}}

\* the map the query collects for a node
NodeMap(n) ==
    [id |-> toString(n.id), label |-> n.name, node_type |-> n.label]

\* the map the query collects for a relationship
EdgeMap(r) ==
    [id |-> toString(r.id), source |-> toString(r.start), target |-> toString(r.end),
     relationship_type |-> r.type]

MapSeq(l, Op(_)) == [i \in 1..Len(l) |-> Op(l[i])]

MaxCopies == 2                   \* a store may hand back every map this often

MaxMaxNodes == 3                 \* largest max_nodes explored

depth_le == 3                    \* ConnectionRequest.depth: le=3

RECURSIVE Copies(_, _)
Copies(l, c) == IF c <= 1 THEN l ELSE l \o Copies(l, c - 1)

\* RETURN nodes, edges for the kept paths
ConnectionsRecord(kept, c) ==
    [nodes |-> Copies(MapSeq(ById(NodesOn(kept)), NodeMap), c),
     edges |-> Copies(MapSeq(ById(UNION {RelsIn(path) : path \in kept}), EdgeMap), c)]

\* the rows execute_read can return for the get_connections query: when no
\* path matches, no row or one row of empty lists (line 105 provides for
\* both); else one row for some max_nodes of the paths
ConnectionsRows(paths, max_nodes) ==
    IF paths = {} THEN {<<>>, <<[nodes |-> <<>>, edges |-> <<>>]>>}
    ELSE {<<ConnectionsRecord(kept, c)>> :
             kept \in Limited(paths, max_nodes), c \in 1..MaxCopies}

-----------------------------------------------------------------------------
(* GraphService.get_connections                                            *)

NODE_COLORS ==
    [Officer |-> "#3B82F6", Entity |-> "#10B981", Intermediary |-> "#F59E0B",
     Address |-> "#6B7280"]

\* GraphNode.node_type: Literal["Officer", "Entity", "Intermediary", "Address"]
NodeTypes == {"Officer", "Entity", "Intermediary", "Address"}

\* GraphNode(...) raises no ValidationError
GraphNodeValid(node_data) == node_data.node_type \in NodeTypes

\* lines 126-135
GraphNode(node_data) ==
    [id |-> node_data.id,
     label |-> IF Truthy(node_data.label) THEN node_data.label ELSE "Unknown",
     node_type |-> node_data.node_type,
     color |-> IF node_data.node_type \in DOMAIN NODE_COLORS
               THEN NODE_COLORS[node_data.node_type] ELSE "#6B7280"]

\* lines 144-150
GraphEdge(edge_data) ==
    [id |-> edge_data.id, source |-> edge_data.source, target |-> edge_data.target,
     relationship_type |-> edge_data.relationship_type]

\* the loop of _deduplicate_nodes, seen being the ids met so far
RECURSIVE DedupNodes(_, _)
DedupNodes(l, seen) ==
    IF l = <<>> THEN <<>>
    ELSE IF Head(l).id \notin seen
    THEN <<Head(l)>> \o DedupNodes(Tail(l), seen \cup {Head(l).id})
    ELSE DedupNodes(Tail(l), seen)

deduplicate_nodes(l) == DedupNodes(l, {})

EdgeKey(edge) == <<edge.source, edge.target, edge.relationship_type>>

\* variant: edges are told apart by their id
EdgeSeenKey_Id(edge) == edge.id

\* line 200: key = (edge.source, edge.target, edge.relationship_type)
EdgeSeenKey(edge) == EdgeKey(edge)

\* the loop of _deduplicate_edges, seen being the keys met so far
RECURSIVE DedupEdges(_, _)
DedupEdges(l, seen) ==
    IF l = <<>> THEN <<>>
    ELSE IF EdgeSeenKey(Head(l)) \notin seen
    THEN <<Head(l)>> \o DedupEdges(Tail(l), seen \cup {EdgeSeenKey(Head(l))})
    ELSE DedupEdges(Tail(l), seen)

deduplicate_edges(l) == DedupEdges(l, {})

ConnectionGraph(graph_nodes, graph_edges, node_id, depth) ==
    [kind |-> "graph", nodes |-> graph_nodes, edges |-> graph_edges,
     center_node_id |-> toString(node_id), depth |-> depth,
     node_count |-> Len(graph_nodes), edge_count |-> Len(graph_edges)]

\* variant: on a failure the graph built so far is returned
GraphQueryFailed_PartialGraph(e, built_nodes, built_edges, a) ==
    ConnectionGraph(built_nodes, built_edges, a.node_id, a.depth)

\* lines 173-180: raise APIError(f"Graph query failed: {str(e)}", 500)
GraphQueryFailed(e, built_nodes, built_edges, a) ==
    [kind |-> "APIError", message |-> <<"Graph query failed: ", e>>,
     status_code |-> 500]

\* variant: a node without connections is answered as an error
EmptyGraph_NotFound(a) ==
    [kind |-> "APIError", message |-> <<"Node not found">>, status_code |-> 404]

\* lines 107-114: the graph returned for a node without connections
EmptyGraph(a) == ConnectionGraph(<<>>, <<>>, a.node_id, a.depth)

ConnectionCalls ==
    [op : {"get_connections"}, node_id : NodeIds, depth : 1..depth_le,
     max_nodes : 1..MaxMaxNodes]

-----------------------------------------------------------------------------
(* OffshoreLeaksService.get_by_id                                          *)

\* the rows execute_read can return for the get_by_id query: one row for the
\* node with this id, none when there is no such node
ByIdRows(node_id) ==
    IF \E n \in StoreNodes : n.id = node_id
    THEN {<<[node_id |-> node_id, name |-> StoreNode(node_id).name,
             node_type |-> StoreNode(node_id).label,
             conn_count |-> Cardinality(Incident(node_id))]>>}
    ELSE {<<>>}

\* OffshoreEntity(...) raises no ValidationError
OffshoreEntityValid(record) == record.node_type \in NodeTypes

\* _parse_record on the row, after line 292 set its score to 10.0
parse_record(record) ==
    [node_id |-> record.node_id,
     name |-> IF Truthy(record.name) THEN record.name ELSE "Unknown Entity",
     node_type |-> record.node_type,
     connections_count |-> record.conn_count,
     match_score |-> IF 10 * 10 > 100 THEN 100 ELSE 10 * 10,
     source |-> "offshore_leaks"]

\* variant: a failure is answered like a missing node
GetByIdFailed_ReturnsNone(e) == [kind |-> "None"]

\* lines 296-302: raise APIError(f"Failed to get entity by ID: {str(e)}")
GetByIdFailed(e) ==
    [kind |-> "APIError", message |-> <<"Failed to get entity by ID: ", e>>,
     status_code |-> None]

ByIdCalls ==
    [op : {"get_by_id"}, node_id : NodeIds, depth : {0}, max_nodes : {0}]

-----------------------------------------------------------------------------
(* One call of a graph store operation                                     *)

GraphInit ==
    /\ gpc = "query"
    /\ args \in ConnectionCalls \cup ByIdCalls
    /\ records = NoRecords
    /\ nodes = <<>>
    /\ edges = <<>>
    /\ returned = NoOutcome
    /\ pc = "idle"
    /\ request = DefaultRequest
    /\ created = {}
    /\ call = [s \in Sources |-> "none"]
    /\ taskResult = [s \in Sources |-> NoResult]
    /\ completed = <<>>
    /\ localResults = <<>>
    /\ aggInput = [s \in Sources |-> NoResult]
    /\ response = NoResponse
    /\ closed = [s \in Sources |-> 0]
    /\ rawQuery = <<>>
    /\ validation = "none"
    /\ HandlerIdle
    /\ ExtIdle

\* the rows the store returns for the query of the call
Rows(a) ==
    IF a.op = "get_connections"
    THEN ConnectionsRows(Paths(a.node_id, a.depth), a.max_nodes)
    ELSE ByIdRows(a.node_id)

\* what the call raises when exception e reaches its except clause
Failed(a, e, built_nodes, built_edges) ==
    IF a.op = "get_connections"
    THEN GraphQueryFailed(e, built_nodes, built_edges, a)
    ELSE GetByIdFailed(e)

\* await self.client.execute_read(...) returns the rows
ExecuteRead ==
    /\ gpc = "query"
    /\ \E rows \in Rows(args) : records' = [status |-> "ok", rows |-> rows]
    /\ gpc' = "check"
    /\ UNCHANGED <<args, nodes, edges, returned, searchVars, handlerVars, extVars>>

\* await self.client.execute_read(...) raises: no connection, query error
ExecuteReadRaises ==
    /\ gpc = "query"
    /\ records' = [status |-> "failed", rows |-> <<>>]
    /\ returned' = Failed(args, "Failed to connect to Neo4j", nodes, edges)
    /\ gpc' = "done"
    /\ UNCHANGED <<args, nodes, edges, searchVars, handlerVars, extVars>>

\* get_connections lines 105-114: no row, or a row without nodes
NoConnections ==
    /\ gpc = "check"
    /\ args.op = "get_connections"
    /\ IF records.rows = <<>> THEN TRUE ELSE records.rows[1].nodes = <<>>
    /\ returned' = EmptyGraph(args)
    /\ gpc' = "done"
    /\ UNCHANGED <<args, records, nodes, edges, searchVars, handlerVars, extVars>>

\* get_connections lines 117-121
HasConnections ==
    /\ gpc = "check"
    /\ args.op = "get_connections"
    /\ records.rows # <<>>
    /\ records.rows[1].nodes # <<>>
    /\ gpc' = "nodes"
    /\ UNCHANGED <<args, records, nodes, edges, returned, searchVars, handlerVars, extVars>>

\* get_connections lines 122-136: one pass of the node loop
BuildNode ==
    /\ gpc = "nodes"
    /\ Len(nodes) < Len(records.rows[1].nodes)
    /\ GraphNodeValid(records.rows[1].nodes[Len(nodes) + 1])
    /\ nodes' = Append(nodes, GraphNode(records.rows[1].nodes[Len(nodes) + 1]))
    /\ UNCHANGED <<gpc, args, records, edges, returned, searchVars, handlerVars, extVars>>

\* get_connections line 126: GraphNode(...) raises ValidationError
BuildNodeRaises ==
    /\ gpc = "nodes"
    /\ Len(nodes) < Len(records.rows[1].nodes)
    /\ ~GraphNodeValid(records.rows[1].nodes[Len(nodes) + 1])
    /\ returned' = Failed(args, "1 validation error for GraphNode", nodes, edges)
    /\ gpc' = "done"
    /\ UNCHANGED <<args, records, nodes, edges, searchVars, handlerVars, extVars>>

\* get_connections lines 138-139: the node loop is over
NodesBuilt ==
    /\ gpc = "nodes"
    /\ Len(nodes) = Len(records.rows[1].nodes)
    /\ gpc' = "edges"
    /\ UNCHANGED <<args, records, nodes, edges, returned, searchVars, handlerVars, extVars>>

\* get_connections lines 140-151: one pass of the edge loop
BuildEdge ==
    /\ gpc = "edges"
    /\ Len(edges) < Len(records.rows[1].edges)
    /\ edges' = Append(edges, GraphEdge(records.rows[1].edges[Len(edges) + 1]))
    /\ UNCHANGED <<gpc, args, records, nodes, returned, searchVars, handlerVars, extVars>>

\* get_connections lines 153-171: both lists are deduplicated and returned
ReturnGraph ==
    /\ gpc = "edges"
    /\ Len(edges) = Len(records.rows[1].edges)
    /\ nodes' = deduplicate_nodes(nodes)
    /\ edges' = deduplicate_edges(edges)
    /\ returned' = ConnectionGraph(deduplicate_nodes(nodes), deduplicate_edges(edges),
                                   args.node_id, args.depth)
    /\ gpc' = "done"
    /\ UNCHANGED <<args, records, searchVars, handlerVars, extVars>>

\* get_by_id lines 288-289
ByIdNotFound ==
    /\ gpc = "check"
    /\ args.op = "get_by_id"
    /\ records.rows = <<>>
    /\ returned' = [kind |-> "None"]
    /\ gpc' = "done"
    /\ UNCHANGED <<args, records, nodes, edges, searchVars, handlerVars, extVars>>

\* get_by_id lines 291-294
ByIdParse ==
    /\ gpc = "check"
    /\ args.op = "get_by_id"
    /\ records.rows # <<>>
    /\ OffshoreEntityValid(records.rows[1])
    /\ returned' = [kind |-> "entity", entity |-> parse_record(records.rows[1])]
    /\ gpc' = "done"
    /\ UNCHANGED <<args, records, nodes, edges, searchVars, handlerVars, extVars>>

\* get_by_id line 294: OffshoreEntity(...) raises ValidationError
ByIdParseRaises ==
    /\ gpc = "check"
    /\ args.op = "get_by_id"
    /\ records.rows # <<>>
    /\ ~OffshoreEntityValid(records.rows[1])
    /\ returned' = Failed(args, "1 validation error for OffshoreEntity", nodes, edges)
    /\ gpc' = "done"
    /\ UNCHANGED <<args, records, nodes, edges, searchVars, handlerVars, extVars>>

GraphNext ==
    \/ ExecuteRead
    \/ ExecuteReadRaises
    \/ NoConnections
    \/ HasConnections
    \/ BuildNode
    \/ BuildNodeRaises
    \/ NodesBuilt
    \/ BuildEdge
    \/ ReturnGraph
    \/ ByIdNotFound
    \/ ByIdParse
    \/ ByIdParseRaises

GraphSpec == GraphInit /\ [][GraphNext]_vars

-----------------------------------------------------------------------------
(* A remote API client: search, its retried _make_request and its breaker  *)

MAX_RETRIES == 3                 \* API_MAX_RETRIES, default "3"

FAIL_MAX == 5                    \* CIRCUIT_FAIL_MAX, default "5"

MaxSearches == 2                 \* search calls made on one client

RemoteSources == {"opensanctions", "sanctions_io"}

\* the api key a client can hold: only SanctionsIoService has one, and it
\* may be missing
Clients ==
    {[name |-> "opensanctions", api_key |-> None],
     [name |-> "sanctions_io", api_key |-> "key"],
     [name |-> "sanctions_io", api_key |-> None]}

\* what one pass of _make_request returns or raises: the parsed JSON,
\* httpx.TimeoutException or httpx.ConnectError from client.get, an
\* httpx.HTTPStatusError from raise_for_status, a ValueError from json()
AttemptOutcomes ==
    {[kind |-> "ok"], [kind |-> "TimeoutException"], [kind |-> "ConnectError"],
     [kind |-> "HTTPStatusError", status_code |-> 401],
     [kind |-> "HTTPStatusError", status_code |-> 429],
     [kind |-> "HTTPStatusError", status_code |-> 500],
     [kind |-> "ValueError"]}

\* stop=stop_after_attempt(MAX_RETRIES)
stop_after_attempt(n) == n >= MAX_RETRIES

\* variant: every exception is retried
retry_if_exception_type_Any(exc) == exc.kind # "ok"

\* retry=retry_if_exception_type((httpx.TimeoutException, httpx.ConnectError))
retry_if_exception_type(exc) == exc.kind \in {"TimeoutException", "ConnectError"}

\* search refuses to start: SanctionsIoService without api key (lines
\* 112-116), or a breaker found open (lines 126-128)
Refused(c, state) ==
    IF c.name = "sanctions_io" /\ ~Truthy(c.api_key)
    THEN [kind |-> "APIError", message |-> "Sanctions.io API key not configured",
          status_code |-> 401]
    ELSE IF state = "open"
    THEN [kind |-> "APIError", message |-> "service temporarily unavailable",
          status_code |-> None]
    ELSE NoOutcome

\* the except clauses of search, applied to what _make_request raised
SearchExcept(c, exc) ==
    CASE exc.kind = "TimeoutException" ->
            [kind |-> "APITimeoutError", message |-> "API request timed out",
             status_code |-> 504]
      [] exc.kind = "HTTPStatusError" ->
            [kind |-> "APIError", message |-> "API error",
             status_code |-> exc.status_code]
      [] OTHER ->
            [kind |-> "APIError", message |-> "Unexpected error",
             status_code |-> None]

\* what search returns or raises once _make_request is over
SearchOutcome(c, exc) ==
    IF exc.kind = "ok" THEN [kind |-> "entities"] ELSE SearchExcept(c, exc)

SearchIdle ==
    /\ pc = "idle"
    /\ request = DefaultRequest
    /\ created = {}
    /\ call = [s \in Sources |-> "none"]
    /\ taskResult = [s \in Sources |-> NoResult]
    /\ completed = <<>>
    /\ localResults = <<>>
    /\ aggInput = [s \in Sources |-> NoResult]
    /\ response = NoResponse
    /\ closed = [s \in Sources |-> 0]
    /\ rawQuery = <<>>
    /\ validation = "none"

ClientInit ==
    /\ client \in Clients
    /\ cpc = "idle"
    /\ attempt_number = 0
    /\ attempt_exc = NoOutcome
    /\ search_result = NoOutcome
    /\ current_state = "closed"
    /\ failures = 0
    /\ searches = 0
    /\ SearchIdle
    /\ HandlerIdle
    /\ GraphIdle
    /\ MatchIdle
    /\ now = 0
    /\ CacheIdle
    /\ LimiterIdle
    /\ ConnIdle
    /\ NeoIdle

\* search is called: the api key and the breaker are looked at, and the
\* call either ends there or goes on to _make_request
SearchStart ==
    /\ cpc = "idle"
    /\ searches < MaxSearches
    /\ attempt_number' = 0
    /\ attempt_exc' = NoOutcome
    /\ search_result' = Refused(client, current_state)
    /\ cpc' = IF Refused(client, current_state) = NoOutcome THEN "request" ELSE "done"
    /\ UNCHANGED <<client, current_state, failures, searches,
                   searchVars, handlerVars, graphVars, matchVars, now, cacheVars, limiterVars, connVars, neoVars>>

\* one pass of the body of _make_request: the HTTP request is sent and
\* answered, or fails
SendRequest ==
    /\ cpc = "request"
    /\ \E outcome \in AttemptOutcomes :
          /\ attempt_exc' = outcome
          /\ failures' = IF outcome.kind = "ok" THEN 0
                         ELSE IF failures < FAIL_MAX THEN failures + 1 ELSE failures
    /\ attempt_number' = attempt_number + 1
    /\ cpc' = "attempted"
    /\ UNCHANGED <<client, search_result, current_state, searches,
                   searchVars, handlerVars, graphVars, matchVars, now, cacheVars, limiterVars, connVars, neoVars>>

\* tenacity: the exception is one to retry and the stop condition does not
\* hold; after the wait _make_request runs again
Retry ==
    /\ cpc = "attempted"
    /\ retry_if_exception_type(attempt_exc)
    /\ ~stop_after_attempt(attempt_number)
    /\ cpc' = "request"
    /\ UNCHANGED <<client, attempt_number, attempt_exc, search_result, current_state,
                   failures, searches, searchVars, handlerVars, graphVars, matchVars, now, cacheVars, limiterVars, connVars, neoVars>>

\* _make_request returns, or (reraise=True) raises its last exception, and
\* search returns the entities or raises from its except clause
SearchEnd ==
    /\ cpc = "attempted"
    /\ ~retry_if_exception_type(attempt_exc) \/ stop_after_attempt(attempt_number)
    /\ search_result' = SearchOutcome(client, attempt_exc)
    /\ cpc' = "done"
    /\ UNCHANGED <<client, attempt_number, attempt_exc, current_state, failures,
                   searches, searchVars, handlerVars, graphVars, matchVars, now, cacheVars, limiterVars, connVars, neoVars>>

\* the caller has the outcome; the client is free for the next search
SearchReturned ==
    /\ cpc = "done"
    /\ searches' = searches + 1
    /\ cpc' = "idle"
    /\ UNCHANGED <<client, attempt_number, attempt_exc, search_result, current_state,
                   failures, searchVars, handlerVars, graphVars, matchVars, now, cacheVars, limiterVars, connVars, neoVars>>

ClientNext ==
    \/ SearchStart
    \/ SendRequest
    \/ Retry
    \/ SearchEnd
    \/ SearchReturned

\* every await of the call resumes: the HTTP client and the retry wait are
\* bounded by timeouts
ClientSpec == ClientInit /\ [][ClientNext]_vars /\ WF_vars(ClientNext)

-----------------------------------------------------------------------------
(* FuzzyMatcher.filter_matches and get_best_match                          *)

MaxCandidates == 2               \* longest candidates list explored

Ann == <<"A","n","n">>

Candidates == Names \cup {Ann}

MatchCalls ==
    [threshold : Thresholds, query : Queries,
     candidates : ListsUpTo(Candidates, MaxCandidates)]

\* process.extract(..., scorer=fuzz.token_sort_ratio): the score of every
\* normalized candidate against the normalized query
ExtractScores(query, candidates) ==
    [i \in 1..Len(candidates) |->
        token_sort_ratio(normalize(query), normalize(candidates[i]))]

\* score_cutoff=self.threshold: the choices extract keeps
AboveCutoff(scores, threshold) ==
    {i \in DOMAIN scores : scores[i] >= Pct(threshold)}

\* limit=1: the kept choices extract can put first, those of highest score
First(scores, kept) == {i \in kept : \A j \in kept : scores[i] >= scores[j]}

\* filter_matches(query, candidates, limit=1): the lists it can return, of
\* (candidate, score, index)
filter_matches(query, candidates, threshold) ==
    IF AboveCutoff(ExtractScores(query, candidates), threshold) = {} THEN {<<>>}
    ELSE {<<[candidate |-> candidates[i],
             score |-> ExtractScores(query, candidates)[i], index |-> i - 1]>> :
            i \in First(ExtractScores(query, candidates),
                        AboveCutoff(ExtractScores(query, candidates), threshold))}

\* lines 184-193, on the list filter_matches returned
BestOf(candidates, matches) ==
    IF candidates = <<>> \/ matches = <<>> THEN [kind |-> "None"]
    ELSE [kind |-> "match", candidate |-> matches[1].candidate,
          score |-> matches[1].score]

\* is_match(query, candidate)[0]
is_match(query, candidate, threshold) ==
    calculate_score(query, candidate) >= Pct(threshold)

MatchInit ==
    /\ matcher \in MatchCalls
    /\ best = NoOutcome
    /\ SearchIdle
    /\ HandlerIdle
    /\ GraphIdle
    /\ ClientIdle
    /\ now = 0
    /\ CacheIdle
    /\ LimiterIdle
    /\ ConnIdle
    /\ NeoIdle

GetBestMatch ==
    /\ best = NoOutcome
    /\ \E matches \in filter_matches(matcher.query, matcher.candidates, matcher.threshold) :
          best' = BestOf(matcher.candidates, matches)
    /\ UNCHANGED <<matcher, searchVars, handlerVars, graphVars, clientVars, now, cacheVars, limiterVars, connVars, neoVars>>

MatchNext == GetBestMatch

MatchSpec == MatchInit /\ [][MatchNext]_vars

-----------------------------------------------------------------------------
(* The @cached decorator over CacheService                                 *)

ttl_seconds == 300               \* search.py: @cached(ttl_seconds=300)

CacheService_ttl == 3600         \* get_cache_service: CacheService(ttl_seconds=3600)

TimeStep == 200                  \* seconds the clock advances at a time

MaxTime == 4000                  \* the clock stops here

\* the events the wrapper is called with; method, path, query parameters
\* and body make the key, and here the body tells two requests apart
Events ==
    {[httpMethod |-> "POST", body |-> "b1"], [httpMethod |-> "POST", body |-> "b2"],
     [httpMethod |-> "OPTIONS", body |-> "b1"]}

\* lines 66-74: the md5 digest of method, path, query and body, taken as
\* free of collisions
cache_key(e) == <<"api", e.httpMethod, e.body>>

CacheKeys == {cache_key(e) : e \in Events}

\* the status codes the decorated handler answers with
HandlerStatuses == {200, 400, 500}

\* CacheService.get: the entry is there and has not expired
Fresh(c, key, t) == c[key] # NoEntry /\ ~(t > c[key].expires_at)

\* CacheService.get, lines 53-62: an expired entry is deleted
AfterGet(c, key, t) ==
    IF c[key] # NoEntry /\ t > c[key].expires_at THEN [c EXCEPT ![key] = NoEntry] ELSE c

\* CacheService.set, line 73: ttl or self.ttl
EntryTtl(ttl) == IF Truthy(ttl) THEN ttl ELSE CacheService_ttl

\* CacheService.set
AfterSet(c, key, value, ttl, t) ==
    [c EXCEPT ![key] = [expires_at |-> t + EntryTtl(ttl), created_at |-> t,
                        value |-> value]]

\* lines 85-87: cache.set(cache_key, response, ttl=None) for status 200
AfterRun(c, key, resp, t) ==
    IF resp.statusCode = 200 THEN AfterSet(c, key, resp, None, t) ELSE c

\* the wrapper neither looks into the cache nor stores: OPTIONS
Bypass(e) == e.httpMethod = "OPTIONS"

Served(from_cache, resp, age) ==
    [kind |-> "served", from_cache |-> from_cache, statusCode |-> resp.statusCode,
     age |-> age]

CacheInit ==
    /\ now = 0
    /\ cache = [key \in CacheKeys |-> NoEntry]
    /\ kpc = "idle"
    /\ event = NoEvent
    /\ served = NoOutcome
    /\ SearchIdle
    /\ HandlerIdle
    /\ GraphIdle
    /\ ClientIdle
    /\ MatchIdle
    /\ LimiterIdle
    /\ ConnIdle
    /\ NeoIdle

\* time passes
Tick ==
    /\ now < MaxTime
    /\ now' = now + TimeStep
    /\ UNCHANGED <<cacheVars, searchVars, handlerVars, graphVars, clientVars, matchVars, limiterVars, connVars, neoVars>>

\* the wrapper is called and, unless the method is OPTIONS, asks the cache;
\* a fresh entry is the answer
WrapperCall ==
    /\ kpc = "idle"
    /\ \E e \in Events :
          /\ event' = e
          /\ cache' = IF Bypass(e) THEN cache ELSE AfterGet(cache, cache_key(e), now)
          /\ IF ~Bypass(e) /\ Fresh(cache, cache_key(e), now)
             THEN /\ served' = Served(TRUE, cache[cache_key(e)].value,
                                      now - cache[cache_key(e)].created_at)
                  /\ kpc' = "idle"
             ELSE /\ served' = NoOutcome
                  /\ kpc' = "run"
    /\ UNCHANGED <<now, searchVars, handlerVars, graphVars, clientVars, matchVars, limiterVars, connVars, neoVars>>

\* the decorated handler runs and answers; a 200 answer is stored
HandlerRuns ==
    /\ kpc = "run"
    /\ \E status \in HandlerStatuses :
          /\ served' = Served(FALSE, [statusCode |-> status], 0)
          /\ cache' = IF Bypass(event) THEN cache
                      ELSE AfterRun(cache, cache_key(event), [statusCode |-> status], now)
    /\ kpc' = "idle"
    /\ UNCHANGED <<now, event, searchVars, handlerVars, graphVars, clientVars, matchVars, limiterVars, connVars, neoVars>>

CacheNext ==
    \/ Tick
    \/ WrapperCall
    \/ HandlerRuns

CacheSpec == CacheInit /\ [][CacheNext]_vars

-----------------------------------------------------------------------------
(* RateLimiter.is_allowed                                                  *)

max_requests == 2                \* requests per window (the program's is 100)

window_seconds == 60             \* get_rate_limiter: window_seconds=60

LimiterStep == 30                \* seconds the clock advances at a time

LimiterMaxTime == 150            \* the clock stops here

MaxCalls == 6                    \* is_allowed calls answered as allowed

\* client-ip or x-forwarded-for of the event, "unknown" without either
Identifiers == {"10.0.0.1", "unknown"}

RECURSIVE SelectSeq2(_, _)
\* [req_time for req_time in history if req_time > cutoff]
SelectSeq2(history, cutoff) ==
    IF history = <<>> THEN <<>>
    ELSE IF Head(history) > cutoff
    THEN <<Head(history)>> \o SelectSeq2(Tail(history), cutoff)
    ELSE SelectSeq2(Tail(history), cutoff)

\* lines 48-51: the history without the requests older than the window
recent(history, t) == SelectSeq2(history, t - window_seconds)

\* variant: one request more than max_requests is let through
OverLimit_Greater(history) == Len(history) > max_requests

\* line 54: len(history) >= self.max_requests
OverLimit(history) == Len(history) >= max_requests

\* is_allowed: the history kept for the identifier after the call
HistoryAfter(history, t) ==
    IF OverLimit(recent(history, t)) THEN recent(history, t)
    ELSE Append(recent(history, t), t)

\* is_allowed: the (allowed, remaining) pair it returns
Answer(history, t) ==
    IF OverLimit(recent(history, t)) THEN [allowed |-> FALSE, remaining |-> 0]
    ELSE [allowed |-> TRUE, remaining |-> max_requests - (Len(recent(history, t)) + 1)]

LimiterInit ==
    /\ now = 0
    /\ requests = [i \in Identifiers |-> <<>>]
    /\ verdict = NoOutcome
    /\ allowed_at = [i \in Identifiers |-> <<>>]
    /\ SearchIdle
    /\ HandlerIdle
    /\ GraphIdle
    /\ ClientIdle
    /\ MatchIdle
    /\ CacheIdle
    /\ ConnIdle
    /\ NeoIdle

Calls == Len(allowed_at["10.0.0.1"]) + Len(allowed_at["unknown"])

\* time passes between two calls
ClockAdvances ==
    /\ now < LimiterMaxTime
    /\ now' = now + LimiterStep
    /\ verdict' = NoOutcome
    /\ UNCHANGED <<requests, allowed_at, cacheVars, searchVars, handlerVars, graphVars,
                   clientVars, matchVars, connVars, neoVars>>

\* limiter.is_allowed(identifier)
IsAllowed(identifier) ==
    /\ Calls < MaxCalls
    /\ requests' = [requests EXCEPT ![identifier] = HistoryAfter(@, now)]
    /\ verdict' = [kind |-> "verdict", identifier |-> identifier,
                   allowed |-> Answer(requests[identifier], now).allowed,
                   remaining |-> Answer(requests[identifier], now).remaining]
    /\ allowed_at' = IF Answer(requests[identifier], now).allowed
                     THEN [allowed_at EXCEPT ![identifier] = Append(@, now)]
                     ELSE allowed_at
    /\ UNCHANGED <<now, cacheVars, searchVars, handlerVars, graphVars, clientVars,
                   matchVars, connVars, neoVars>>

LimiterNext ==
    \/ ClockAdvances
    \/ \E identifier \in Identifiers : IsAllowed(identifier)

LimiterSpec == LimiterInit /\ [][LimiterNext]_vars

-----------------------------------------------------------------------------
(* The connections handler over get_by_id and get_connections              *)

depth_ge == 1                    \* ConnectionRequest.depth: ge=1

\* request bodies; max_nodes stands scaled for the 10..100 of the program
ConnBodies ==
    [node_id : NodeIds, depth : {0, 1, depth_le}, max_nodes : {1, MaxMaxNodes}]

\* ConnectionRequest(...) raises no ValidationError
ConnectionRequestValid(b) == InRange(b.depth, depth_ge, depth_le)

\* line 40: raise APIError(f"Node with ID ... not found", status_code=404)
NodeNotFound(node_id) ==
    [kind |-> "APIError", message |-> <<"Node not found: ", toString(node_id)>>,
     status_code |-> 404]

\* line 137: getattr(e, 'status_code', 500); APIError always has the
\* attribute, None when it was raised without one
ApiErrorStatus(e) == e.status_code

\* lines 129-143: the response for an APIError
ApiErrorResponse(e) == [statusCode |-> ApiErrorStatus(e), error |-> "APIError"]

ConnInit ==
    /\ connpc = "idle"
    /\ connreq = NoBody
    /\ node = NoOutcome
    /\ connhttp = NoHttp
    /\ SearchIdle
    /\ HandlerIdle
    /\ GraphIdle
    /\ ClientIdle
    /\ MatchIdle
    /\ now = 0
    /\ CacheIdle
    /\ LimiterIdle
    /\ NeoIdle

ConnOthers == <<searchVars, handlerVars, clientVars, matchVars, now, cacheVars, limiterVars, neoVars>>

\* lines 87-88 and 113-127: the body is parsed; an invalid one is answered
\* with 400, a valid one goes to get_by_id
ConnReceive ==
    /\ connpc = "idle"
    /\ \E b \in ConnBodies :
          /\ connreq' = b
          /\ IF ConnectionRequestValid(b)
             THEN /\ args' = [op |-> "get_by_id", node_id |-> b.node_id,
                              depth |-> 0, max_nodes |-> 0]
                  /\ gpc' = "query"
                  /\ connpc' = "by_id"
                  /\ connhttp' = connhttp
             ELSE /\ connhttp' = [statusCode |-> 400, error |-> "ValidationError"]
                  /\ connpc' = "done"
                  /\ UNCHANGED <<args, gpc>>
    /\ UNCHANGED <<node, records, nodes, edges, returned, ConnOthers>>

\* lines 37-40: get_by_id returned None
ConnNodeMissing ==
    /\ connpc = "by_id"
    /\ gpc = "done"
    /\ returned.kind = "None"
    /\ connhttp' = ApiErrorResponse(NodeNotFound(connreq.node_id))
    /\ connpc' = "done"
    /\ UNCHANGED <<connreq, node, graphVars, ConnOthers>>

\* lines 42-47: get_by_id returned the node; get_connections is called
ConnTraverse ==
    /\ connpc = "by_id"
    /\ gpc = "done"
    /\ returned.kind = "entity"
    /\ node' = returned
    /\ args' = [op |-> "get_connections", node_id |-> connreq.node_id,
                depth |-> connreq.depth, max_nodes |-> connreq.max_nodes]
    /\ gpc' = "query"
    /\ records' = NoRecords
    /\ nodes' = <<>>
    /\ edges' = <<>>
    /\ returned' = NoOutcome
    /\ connpc' = "graph"
    /\ UNCHANGED <<connreq, connhttp, ConnOthers>>

\* lines 49-53 and 107-111: the graph is answered with 200
ConnRespond ==
    /\ connpc = "graph"
    /\ gpc = "done"
    /\ returned.kind = "graph"
    /\ connhttp' = [statusCode |-> 200, error |-> None]
    /\ connpc' = "done"
    /\ UNCHANGED <<connreq, node, graphVars, ConnOthers>>

\* lines 129-143: get_by_id or get_connections raised APIError
ConnApiError ==
    /\ connpc \in {"by_id", "graph"}
    /\ gpc = "done"
    /\ returned.kind = "APIError"
    /\ connhttp' = ApiErrorResponse(returned)
    /\ connpc' = "done"
    /\ UNCHANGED <<connreq, node, graphVars, ConnOthers>>

ConnNext ==
    \/ ConnReceive
    \/ ConnNodeMissing
    \/ ConnTraverse
    \/ ConnRespond
    \/ ConnApiError
    \/ GraphNext

ConnSpec == ConnInit /\ [][ConnNext]_vars

-----------------------------------------------------------------------------
(* Neo4jClient: connect, execute_read, execute_write, close                *)

MaxOps == 5                      \* method calls made on the shared client

Methods == {"connect", "execute_read", "execute_write", "close"}

\* lines 53-58: AsyncGraphDatabase.driver(...) makes a driver that nothing
\* has verified yet; gen tells one driver object from the next
NewDriver(d) == [gen |-> d.gen + 1, verified |-> FALSE]

\* `if self.driver:` / `if not self.driver` / `self.driver is None`
HasDriver(d) == d.gen # 0

NeoInit ==
    /\ driver = NoDriver
    /\ npc = "idle"
    /\ caller = "none"
    /\ ran_on = NoDriver
    /\ raised = None
    /\ ops = 0
    /\ SearchIdle
    /\ HandlerIdle
    /\ GraphIdle
    /\ ClientIdle
    /\ MatchIdle
    /\ now = 0
    /\ CacheIdle
    /\ LimiterIdle
    /\ ConnIdle

NeoOthers == <<searchVars, handlerVars, graphVars, clientVars, matchVars, now, cacheVars, limiterVars, connVars>>

\* connect(): with a driver there is nothing to do; without one a driver is
\* made and its verification begins
Connect ==
    /\ npc = "idle"
    /\ ops < MaxOps
    /\ ops' = ops + 1
    /\ raised' = None
    /\ caller' = "connect"
    /\ driver' = IF HasDriver(driver) THEN driver ELSE NewDriver(driver)
    /\ npc' = IF HasDriver(driver) THEN "idle" ELSE "verify"
    /\ UNCHANGED <<ran_on, NeoOthers>>

\* execute_read / execute_write, lines 99-100 and 124-125: without a driver
\* connect() is awaited first
Execute ==
    /\ npc = "idle"
    /\ ops < MaxOps
    /\ ops' = ops + 1
    /\ raised' = None
    /\ \E method \in {"execute_read", "execute_write"} : caller' = method
    /\ driver' = IF HasDriver(driver) THEN driver ELSE NewDriver(driver)
    /\ npc' = IF HasDriver(driver) THEN "run" ELSE "verify"
    /\ UNCHANGED <<ran_on, NeoOthers>>

\* verify_connectivity() returns: RETURN 1 gave 1
VerifyOk ==
    /\ npc = "verify"
    /\ driver' = [driver EXCEPT !.verified = TRUE]
    /\ npc' = IF caller = "connect" THEN "idle" ELSE "run"
    /\ UNCHANGED <<caller, ran_on, raised, ops, NeoOthers>>

\* verify_connectivity() raises APIError, lines 73-75; connect() and its
\* caller let it pass, and self.driver keeps the driver made at line 53
VerifyRaises ==
    /\ npc = "verify"
    /\ raised' = "Failed to connect to Neo4j"
    /\ npc' = "idle"
    /\ UNCHANGED <<driver, caller, ran_on, ops, NeoOthers>>

\* lines 104-107 and 129-132: the query runs in a session of self.driver
RunQuery ==
    /\ npc = "run"
    /\ ran_on' = driver
    /\ \E e \in {None, "query failed"} : raised' = e
    /\ npc' = "idle"
    /\ UNCHANGED <<driver, caller, ops, NeoOthers>>

\* close(), lines 79-81
Close ==
    /\ npc = "idle"
    /\ ops < MaxOps
    /\ ops' = ops + 1
    /\ raised' = None
    /\ caller' = "close"
    /\ driver' = IF HasDriver(driver) THEN [gen |-> 0, verified |-> FALSE] ELSE driver
    /\ UNCHANGED <<npc, ran_on, NeoOthers>>

NeoNext ==
    \/ Connect
    \/ Execute
    \/ VerifyOk
    \/ VerifyRaises
    \/ RunQuery
    \/ Close

NeoSpec == NeoInit /\ [][NeoNext]_vars

-----------------------------------------------------------------------------
(* Properties                                                              *)

Responded == response # NoResponse

Scored == {"opensanctions", "sanctions_io"}

Bucket(s) == response.results_by_source[s]

IdOf(e) == IF "id" \in DOMAIN e THEN e.id ELSE e.node_id

IdsOf(l) == {IdOf(l[i]) : i \in 1..Len(l)}

Occurrences(l, id) == Cardinality({i \in 1..Len(l) : IdOf(l[i]) = id})

NameScore(e) == ScoreTable[request.query, e.name]

AliasScoreSet(e) == {ScoreTable[request.query, e.aliases[i]] : i \in 1..Len(e.aliases)}

LexGeq(a, b) ==
    \/ a.is_sanctioned /\ ~b.is_sanctioned
    \/ a.is_sanctioned = b.is_sanctioned /\ a.match_score >= b.match_score

FailedCalls == {s \in request.sources :
                   Truthy(taskResult[s].error) /\ taskResult[s].results = <<>>}

\* the entities of source o's own call that pass the filter of the mode
KeptIds(o) ==
    IF o \in Scored
    THEN IdsOf(score_results(request.query, taskResult[o].results,
                             request.search_type, request.fuzzy_threshold))
    ELSE IdsOf(taskResult[o].results)

OthersReturned(s) ==
    \A o \in request.sources \ {s} : KeptIds(o) \subseteq IdsOf(Bucket(o).results)

ExactHit(e) == NameScore(e) = Pct(100) \/ Pct(100) \in AliasScoreSet(e)

\* C3: in exact mode an entity of a scored source is kept iff its name or
\* one of its aliases scores 100; every kept entity has match_score 100, and
\* an entity with no such score is in neither the bucket nor all_results.
C3_ExactFilter ==
    (Responded /\ request.search_type = "exact") =>
        /\ \A s \in Scored :
              /\ \A i \in 1..Len(aggInput[s].results) :
                    LET e == aggInput[s].results[i]
                    IN /\ (e.id \in IdsOf(Bucket(s).results)) <=> ExactHit(e)
                       /\ ~ExactHit(e) => e.id \notin IdsOf(response.all_results)
              /\ \A i \in 1..Len(Bucket(s).results) :
                    Bucket(s).results[i].match_score = Pct(100)
        /\ \A i \in 1..Len(response.all_results) :
              response.all_results[i].match_score = Pct(100)

\* exact mode kept one entity through an alias only and dropped another
C3_Witness ==
    /\ Responded
    /\ request.search_type = "exact"
    /\ \E s \in Scored :
          /\ \E i \in 1..Len(Bucket(s).results) :
                NameScore(Bucket(s).results[i]) < Pct(100)
          /\ \E i \in 1..Len(aggInput[s].results) :
                aggInput[s].results[i].id \notin IdsOf(Bucket(s).results)

FuzzyByName(e)  == NameScore(e) >= Pct(request.fuzzy_threshold)

FuzzyByAlias(e) ==
    /\ NameScore(e) < Pct(request.fuzzy_threshold)
    /\ AliasScoreSet(e) # {}
    /\ SetMax(AliasScoreSet(e)) >= Pct(request.fuzzy_threshold)

\* C4: in fuzzy mode an entity is kept iff its name score is at or above
\* fuzzy_threshold, or the name score is below it and the maximum alias score
\* is at or above it; it is kept with the name score in the first case and
\* the maximum alias score in the second; every entity of all_results has
\* match_score >= fuzzy_threshold.
C4_FuzzyFilter ==
    (Responded /\ request.search_type = "fuzzy") =>
        /\ \A s \in Scored :
              /\ \A i \in 1..Len(aggInput[s].results) :
                    LET e == aggInput[s].results[i]
                    IN (e.id \in IdsOf(Bucket(s).results))
                           <=> (FuzzyByName(e) \/ FuzzyByAlias(e))
              /\ \A i \in 1..Len(Bucket(s).results) :
                    LET e == Bucket(s).results[i]
                    IN e.match_score = IF FuzzyByName(e) THEN NameScore(e)
                                       ELSE SetMax(AliasScoreSet(e))
        /\ \A i \in 1..Len(response.all_results) :
              response.all_results[i].match_score >= Pct(request.fuzzy_threshold)

\* fuzzy mode kept one entity on its best alias score and dropped another
C4_Witness ==
    /\ Responded
    /\ request.search_type = "fuzzy"
    /\ \E s \in Scored :
          /\ \E i \in 1..Len(Bucket(s).results) :
                /\ FuzzyByAlias(Bucket(s).results[i])
                /\ Bucket(s).results[i].match_score < Pct(100)
          /\ \E i \in 1..Len(aggInput[s].results) :
                aggInput[s].results[i].id \notin IdsOf(Bucket(s).results)

\* C5 (as claimed): when perform_search has returned or propagated an
\* exception, each service constructed for the request has been closed
\* exactly once.
C5_AllClosedOnExit ==
    pc \in {"returned", "raised"} => \A s \in created : closed[s] = 1

\* C6 (as claimed): whenever perform_search is waiting for the completion
\* of a source call, the call of every requested source has been started.
C6_AllStartedBeforeAwait ==
    pc \in {"await_offshore", "await_gather"} =>
        \A s \in request.sources : call[s] \in {"running", "done"}

Dispatched == {s \in Sources : call[s] # "none"}

AfterGather ==
    pc \in {"aggregate", "close_opensanctions", "close_sanctions_io",
            "close_offshore_leaks", "returned", "raised"}

\* C7: aggregate is invoked only after every dispatched source call has
\* completed or failed, and the results of every call that completed reach
\* the aggregator whatever happened to the other calls.
C7_JoinBeforeAggregate ==
    AfterGather =>
        /\ \A s \in Dispatched : call[s] = "done"
        /\ \A s \in Dispatched :
              IdsOf(taskResult[s].results) \subseteq IdsOf(aggInput[s].results)

\* aggregate ran after one call failed and another returned entities
C7_Witness ==
    /\ Responded
    /\ \E s, o \in Dispatched :
          /\ Truthy(taskResult[s].error)
          /\ taskResult[o].results # <<>>
          /\ aggInput[o].results # <<>>

NamesOf(e) ==
    {e.name} \cup (IF "aliases" \in DOMAIN e
                   THEN {e.aliases[i] : i \in 1..Len(e.aliases)} ELSE {})

AggregatorScored(e) ==
    e.match_score \in {ScoreTable[request.query, n] : n \in NamesOf(e)}

C9_AllResultsIsConcatenation ==
    Responded =>
        /\ \A s \in Sources : \A i \in 1..Len(Bucket(s).results) :
              Occurrences(response.all_results, IdOf(Bucket(s).results[i])) = 1
        /\ response.total_results =
              Bucket("opensanctions").count + Bucket("sanctions_io").count
                  + Bucket("offshore_leaks").count

\* C10 (as claimed): an accepted request carries a query of 2 to 200
\* characters, and a request whose sanitized query is shorter than 2
\* characters is rejected.
C10_SanitizedQueryLength ==
    /\ validation = "accepted" =>
          Len(request.query) >= min_length /\ Len(request.query) <= max_length
    /\ (validation # "none" /\ Len(Printable(strip(rawQuery))) < min_length) =>
          validation = "rejected"

\* the body breaks a declared constraint of a SearchRequest field
ViolatesFieldConstraint(b) ==
    \/ Len(b.query) < min_length
    \/ Len(b.query) > max_length
    \/ b.sources = {}
    \/ b.limit < limit_ge
    \/ b.limit > limit_le
    \/ b.fuzzy_threshold < fuzzy_threshold_ge
    \/ b.fuzzy_threshold > fuzzy_threshold_le

HasError(s) == aggInput[s].error # None /\ aggInput[s].error # ""

\* C12: in the response of aggregate every requested source is in exactly one
\* of sources_succeeded and sources_failed, in sources_failed iff its error
\* is non-empty whatever its results, and a requested source with an empty
\* list and no error is in sources_succeeded with found = false, count = 0
C12_SucceededOrFailed ==
    Responded =>
        /\ request.sources \subseteq response.sources_searched
        /\ \A s \in response.sources_searched :
              /\ (s \in response.sources_succeeded) # (s \in response.sources_failed)
              /\ (s \in response.sources_failed) <=> HasError(s)
              /\ (aggInput[s].results = <<>> /\ ~HasError(s)) =>
                    /\ s \in response.sources_succeeded
                    /\ Bucket(s).found = FALSE
                    /\ Bucket(s).count = 0

C12_Witness ==
    /\ Responded
    /\ request.sources = {"opensanctions", "offshore_leaks"}
    /\ aggInput["opensanctions"].results # <<>>
    /\ aggInput["opensanctions"].error = "boom"
    /\ "opensanctions" \in response.sources_failed
    /\ aggInput["offshore_leaks"] = [results |-> <<>>, error |-> ""]
    /\ "offshore_leaks" \in response.sources_succeeded
    /\ Bucket("offshore_leaks").count = 0

\* C13: the pair a finished search_source call produced, whatever the
\* service call did (timeout, HTTP error, missing API key, open circuit,
\* malformed response, any other exception): nothing was raised, and the
\* pair is (results, no error) or an empty list with a non-empty error string
C13_SearchSourceTotal ==
    \A s \in Sources :
        (call[s] = "done" /\ s \in Tasks(request)) =>
            /\ DOMAIN taskResult[s] = {"results", "error"}
            /\ \/ taskResult[s].error = None
               \/ /\ taskResult[s].results = <<>>
                  /\ taskResult[s].error # ""

C13_Witness ==
    /\ call["opensanctions"] = "done"
    /\ call["sanctions_io"] = "done"
    /\ taskResult["opensanctions"] = [results |-> <<>>, error |-> "Unexpected error: boom"]
    /\ taskResult["sanctions_io"] =
          [results |-> <<>>, error |-> "Sanctions.io API key not configured"]

\* the per-source lists handed to aggregate, opensanctions first
ConcatenatedInput ==
    aggInput["opensanctions"].results \o aggInput["sanctions_io"].results

PositionOf(l, id) == CHOOSE i \in 1..Len(l) : IdOf(l[i]) = id

SameRank(a, b) ==
    a.is_sanctioned = b.is_sanctioned /\ a.match_score = b.match_score

\* C14: two entities of all_results with equal (is_sanctioned, match_score)
\* are in the order of the concatenated per-source lists: opensanctions
\* before sanctions_io, and within a source in the order it was returned
C14_StableOrder ==
    Responded =>
        \A i, j \in 1..Len(response.all_results) :
            (i < j /\ SameRank(response.all_results[i], response.all_results[j])) =>
                PositionOf(ConcatenatedInput, IdOf(response.all_results[i]))
                    < PositionOf(ConcatenatedInput, IdOf(response.all_results[j]))

C14_Witness ==
    /\ Responded
    /\ aggInput["opensanctions"].results # <<>>
    /\ IdsOf(aggInput["sanctions_io"].results) = {"sio2", "sio3"}
    /\ IdOf(aggInput["sanctions_io"].results[1]) = "sio3"
    /\ \E i, j \in 1..Len(response.all_results) :
          /\ i < j
          /\ IdOf(response.all_results[i]) = "sio3"
          /\ IdOf(response.all_results[j]) = "sio2"
          /\ SameRank(response.all_results[i], response.all_results[j])

\* the (results, error) pair each source produced, keyed by the source, with
\* the local rows merged into the OpenSanctions pair
OutputsBySource ==
    [s \in Sources |->
        IF s = "opensanctions" THEN MergeLocal(taskResult[s], localResults)
        ELSE taskResult[s]]

\* C15: the response is determined by the request and by what each source
\* returned, whichever of the concurrent calls finished first
C15_CompletionOrderIrrelevant ==
    Responded =>
        response = aggregate(request.query, request.search_type,
                             request.fuzzy_threshold, OutputsBySource,
                             request.sources)

\* both HTTP calls returned entities and the second task finished first
C15_Witness ==
    /\ pc = "await_gather"
    /\ completed = <<"sanctions_io", "opensanctions">>
    /\ taskResult["opensanctions"].results # <<>>
    /\ taskResult["sanctions_io"].results # <<>>

\* the node and edge maps of the row the store returned
RawNodes == records.rows[1].nodes

RawEdges == records.rows[1].edges

RecordSeen == records.status = "ok" /\ records.rows # <<>>

ConnectionsDone == args.op = "get_connections" /\ gpc = "done"

GraphReturned == ConnectionsDone /\ returned.kind = "graph"

RawTriple(e) == <<e.source, e.target, e.relationship_type>>

\* the positions of the raw lists that hold the first occurrence of an id,
\* of a (source, target, relationship_type) triple
FirstNodeIdx ==
    {i \in 1..Len(RawNodes) : \A j \in 1..(i - 1) : RawNodes[j].id # RawNodes[i].id}

FirstEdgeIdx ==
    {i \in 1..Len(RawEdges) :
        \A j \in 1..(i - 1) : RawTriple(RawEdges[j]) # RawTriple(RawEdges[i])}

\* the position of raw index i in the list of the kept indices
RankIn(kept, i) == Cardinality({j \in kept : j <= i})

\* C16: the graph's node list is the raw node list without the later
\* occurrences of an id already seen, its edge list the raw edge list without
\* the later occurrences of a triple already seen; ids and triples are
\* pairwise distinct and the counts are those of the distinct ids and triples
C16_FirstOccurrencesKept ==
    (GraphReturned /\ RecordSeen) =>
        /\ Len(returned.nodes) = Cardinality(FirstNodeIdx)
        /\ \A i \in FirstNodeIdx :
              returned.nodes[RankIn(FirstNodeIdx, i)].id = RawNodes[i].id
        /\ Len(returned.edges) = Cardinality(FirstEdgeIdx)
        /\ \A i \in FirstEdgeIdx :
              /\ returned.edges[RankIn(FirstEdgeIdx, i)].id = RawEdges[i].id
              /\ RawTriple(returned.edges[RankIn(FirstEdgeIdx, i)]) = RawTriple(RawEdges[i])
        /\ \A i, j \in 1..Len(returned.nodes) :
              i # j => returned.nodes[i].id # returned.nodes[j].id
        /\ \A i, j \in 1..Len(returned.edges) :
              i # j => RawTriple(returned.edges[i]) # RawTriple(returned.edges[j])
        /\ returned.node_count = Cardinality({RawNodes[i].id : i \in 1..Len(RawNodes)})
        /\ returned.edge_count =
              Cardinality({RawTriple(RawEdges[i]) : i \in 1..Len(RawEdges)})

\* every node and edge came twice, and two relationships share a triple
C16_Witness ==
    /\ GraphReturned
    /\ RecordSeen
    /\ Len(RawNodes) = 2 * returned.node_count
    /\ returned.node_count >= 2
    /\ \E i, j \in 1..Len(RawEdges) :
          /\ RawEdges[i].id = "101"
          /\ RawEdges[j].id = "102"
    /\ returned.edge_count >= 2
    /\ \A k \in 1..Len(returned.edges) : returned.edges[k].id # "102"

\* the raw row holds a node map GraphNode rejects
BuildFails == RecordSeen /\ \E i \in 1..Len(RawNodes) : ~GraphNodeValid(RawNodes[i])

\* C17: when the store query or the building of the graph fails,
\* get_connections raises APIError "Graph query failed: ..." and returns no
\* graph; a graph it returns holds every node and every edge of the row
C17_FailureRaisesNoGraph ==
    ConnectionsDone =>
        /\ returned.kind \in {"graph", "APIError"}
        /\ (records.status = "failed" \/ BuildFails) => returned.kind = "APIError"
        /\ returned.kind = "APIError" => returned.message[1] = "Graph query failed: "
        /\ (returned.kind = "graph" /\ RecordSeen) =>
              /\ \A i \in 1..Len(RawNodes) :
                    \E k \in 1..Len(returned.nodes) : returned.nodes[k].id = RawNodes[i].id
              /\ \A i \in 1..Len(RawEdges) :
                    \E k \in 1..Len(returned.edges) :
                        RawTriple(returned.edges[k]) = RawTriple(RawEdges[i])

\* the failure came after part of the node list had been built
C17_Witness ==
    /\ ConnectionsDone
    /\ records.status = "ok"
    /\ nodes # <<>>
    /\ returned.kind = "APIError"
    /\ returned.message[1] = "Graph query failed: "

\* C18: every raw node the store returned is in the returned graph, with the
\* palette color of its primary label when that label is Officer, Entity,
\* Intermediary or Address and with the default gray for any other label
C18_EveryNodeColored ==
    (ConnectionsDone /\ RecordSeen) =>
        /\ returned.kind = "graph"
        /\ \A i \in 1..Len(RawNodes) :
              \E k \in 1..Len(returned.nodes) :
                  /\ returned.nodes[k].id = RawNodes[i].id
                  /\ returned.nodes[k].color =
                        (IF RawNodes[i].node_type \in NodeTypes
                         THEN NODE_COLORS[RawNodes[i].node_type]
                         ELSE "#6B7280")

\* C19: a returned graph holds at most max_nodes nodes
C19_AtMostMaxNodes ==
    GraphReturned => Len(returned.nodes) <= args.max_nodes

GetByIdDone == args.op = "get_by_id" /\ gpc = "done"

\* C20: get_by_id returns none exactly when the store returned no row for
\* the id, and raises APIError whenever the store call failed; it returns
\* none for no store failure and raises for no missing node
C20_NoneIffAbsent ==
    GetByIdDone =>
        /\ returned.kind \in {"None", "entity", "APIError"}
        /\ records.status = "failed" => returned.kind = "APIError"
        /\ (records.status = "ok" /\ records.rows = <<>>) => returned.kind = "None"
        /\ returned.kind = "None" => (records.status = "ok" /\ records.rows = <<>>)
        /\ returned.kind = "APIError" =>
              /\ returned.message[1] = "Failed to get entity by ID: "
              /\ ~(records.status = "ok" /\ records.rows = <<>>)

\* the store call failed for an id that no node has
C20_Witness ==
    /\ GetByIdDone
    /\ args.node_id \notin {n.id : n \in StoreNodes}
    /\ records.status = "failed"
    /\ returned.kind = "APIError"

NoNodesAnswered ==
    /\ records.status = "ok"
    /\ IF records.rows = <<>> THEN TRUE ELSE records.rows[1].nodes = <<>>

\* C21: when the store returns no row, or a row whose node list is empty,
\* get_connections returns a graph with no nodes and no edges, both counts 0
\* and center_node_id the stringified node_id, and raises nothing
C21_EmptyGraphNotError ==
    (ConnectionsDone /\ NoNodesAnswered) =>
        /\ returned.kind = "graph"
        /\ returned.nodes = <<>>
        /\ returned.edges = <<>>
        /\ returned.node_count = 0
        /\ returned.edge_count = 0
        /\ returned.center_node_id = toString(args.node_id)
        /\ returned.depth = args.depth

\* the isolated node 6: the store answered with no row
C21_Witness ==
    /\ ConnectionsDone
    /\ args.node_id = 6
    /\ records.status = "ok"
    /\ records.rows = <<>>
    /\ returned.kind = "graph"
    /\ returned.node_count = 0

Retryable == {"TimeoutException", "ConnectError"}

\* a second or later attempt of the call is being made
FurtherAttempt == attempt_number > 0 /\ attempt_number' = attempt_number + 1

\* the call ends at this step, with an error
EndsWithError ==
    /\ cpc' = "done"
    /\ attempt_number' = attempt_number
    /\ search_result'.kind \in {"APIError", "APITimeoutError"}

\* C22: one search call sends the HTTP request at most MAX_RETRIES times; a
\* further attempt follows only a timeout or a connection error; an HTTP
\* error status ends the call after the attempt that received it; a failure
\* of the last allowed attempt ends the call with an error; and every call
\* that reached _make_request comes to its end
C22_BoundedRetries ==
    /\ [](attempt_number <= MAX_RETRIES)
    /\ [][FurtherAttempt => attempt_exc.kind \in Retryable]_vars
    /\ [][(cpc = "attempted" /\ attempt_exc.kind = "HTTPStatusError") => EndsWithError]_vars
    /\ [][(cpc = "attempted" /\ attempt_exc.kind # "ok" /\ attempt_number = MAX_RETRIES)
              => EndsWithError]_vars
    /\ (cpc = "request" ~> cpc = "done")

\* the third attempt ended in a connection error, and so did the call
C22_Witness ==
    /\ cpc = "done"
    /\ attempt_number = MAX_RETRIES
    /\ attempt_exc.kind = "ConnectError"
    /\ search_result.kind = "APIError"

\* the candidates of the call that is_match accepts
Matching ==
    {i \in 1..Len(matcher.candidates) :
        is_match(matcher.query, matcher.candidates[i], matcher.threshold)}

\* C23: get_best_match returns none exactly when no candidate has a
\* calculate_score at or above the threshold, and otherwise a candidate of
\* highest calculate_score together with that score
C23_BestMatchAgreesWithScore ==
    best # NoOutcome =>
        /\ best.kind = "None" <=> Matching = {}
        /\ best.kind = "match" =>
              /\ best.score = calculate_score(matcher.query, best.candidate)
              /\ \A i \in 1..Len(matcher.candidates) :
                    best.score >= calculate_score(matcher.query, matcher.candidates[i])

\* C24: once FAIL_MAX HTTP requests in a row have failed, the breaker of the
\* service is open, and a search that starts then sends no HTTP request
C24_BreakerOpensAfterFailMax ==
    failures >= FAIL_MAX =>
        /\ current_state = "open"
        /\ cpc # "request"

\* C25: an answer comes from the cache only less than ttl_seconds after it
\* was stored, a request more than ttl_seconds after that runs the handler
\* again, and only answers with status 200 are stored
C25_CachedForTtlSeconds ==
    /\ (served # NoOutcome /\ served.from_cache) => served.age < ttl_seconds
    /\ \A key \in DOMAIN cache :
          cache[key] # NoEntry => cache[key].value.statusCode = 200

\* the calls of the identifier answered as allowed in the window_seconds
\* that end at time t
AllowedInWindow(identifier, t) ==
    {i \in 1..Len(allowed_at[identifier]) :
        /\ allowed_at[identifier][i] > t - window_seconds
        /\ allowed_at[identifier][i] <= t}

WindowEnds == {t \in 0..LimiterMaxTime : t <= now}

\* an is_allowed call for the identifier is the step being taken
Called(identifier) == verdict' # NoOutcome /\ verdict'.identifier = identifier

Members(l) == {l[i] : i \in 1..Len(l)}

\* C26: for every identifier, the calls answered as allowed within any
\* window_seconds (a window open at its start, closed at its end) number at
\* most max_requests; a denied call adds nothing to the identifier's
\* history; a call leaves the histories of the other identifiers alone
C26_WindowNeverExceeded ==
    /\ [](\A identifier \in Identifiers : \A t \in WindowEnds :
            Cardinality(AllowedInWindow(identifier, t)) <= max_requests)
    /\ [][\A identifier \in Identifiers :
            (Called(identifier) /\ ~verdict'.allowed) =>
                /\ Len(requests'[identifier]) <= Len(requests[identifier])
                /\ Members(requests'[identifier]) \subseteq Members(requests[identifier])
                /\ allowed_at' = allowed_at]_vars
    /\ [][\A identifier \in Identifiers :
            Called(identifier) =>
                \A other \in Identifiers \ {identifier} :
                    requests'[other] = requests[other]]_vars

\* a call was denied at a time when the other identifier has a history
C26_Witness ==
    /\ verdict # NoOutcome
    /\ ~verdict.allowed
    /\ Len(requests[verdict.identifier]) = max_requests
    /\ \E other \in Identifiers \ {verdict.identifier} : requests[other] # <<>>
    /\ now > window_seconds

\* C27: in every search response the count of each source bucket is at most
\* the limit of the request
C27_BucketWithinLimit ==
    Responded => \A s \in Sources : Bucket(s).count <= request.limit

\* C28: for a source the request does not name, no search is run, its bucket
\* of the response is empty, no entity of that source is in all_results, and
\* the source is neither among the succeeded nor among the failed ones
C28_UnrequestedSourceEmpty ==
    Responded =>
        \A s \in Sources \ request.sources :
            /\ call[s] = "none"
            /\ ~Bucket(s).found
            /\ Bucket(s).count = 0
            /\ \A i \in 1..Len(response.all_results) : response.all_results[i].source # s
            /\ s \notin response.sources_succeeded \cup response.sources_failed

IsInteger(v) == ToString(v) # ToString(None)

ConnDone == connpc = "done"

\* C29: the connections handler always answers with an integer status: 404
\* when get_by_id found no node, and then get_connections was never called;
\* a 5xx status when get_by_id or get_connections failed with a store error
C29_IntegerStatus ==
    ConnDone =>
        /\ IsInteger(connhttp.statusCode)
        /\ returned.kind = "None" =>
              (connhttp.statusCode = 404 /\ args.op = "get_by_id")
        /\ returned.kind = "APIError" => connhttp.statusCode \in 500..599

\* connect() was the last thing the client did, and its verification failed
ConnectFailed == npc = "idle" /\ raised = "Failed to connect to Neo4j"

\* C30: every query runs on a driver whose connectivity verification
\* succeeded, and after a connect() whose verification failed the client
\* holds no driver
C30_QueriesOnVerifiedDriver ==
    /\ HasDriver(ran_on) => ran_on.verified
    /\ ConnectFailed => ~HasDriver(driver)

=============================================================================
